---- MODULE Spec2Model ----
(***************************************************************************)
(* Model of the dictionary search core (core/src/search.rs, lib.rs).       *)
(*                                                                         *)
(* Strings are sequences of characters; a character is one of the short    *)
(* names of Alphabet.  Scores are kept in units of 1e-8 (ScoreUnit is    *)
(* 1.0), which is exact for every value the code computes from an         *)
(* integer length or distance and rounds the ranks of the index to eight   *)
(* decimals.  The SQLite store is modelled by what its queries return      *)
(* for a table of headwords: rows come back in rowid order unless the      *)
(* query has an ORDER BY.                                                  *)
(***************************************************************************)
EXTENDS Integers, Sequences, FiniteSets, TLC

\* ---------------------------------------------------------------- bounds
MaxEntries == 3
MaxLimit == 4
MaxOffset == 2
\* The number of rows of the stores the paging specification draws.
PagingEntries == 4
\* u32::MAX of the model's unsigned word: limit, offset and total_needed are
\* u32 in the code; the model keeps the saturating arithmetic on a narrower word.
UMax == 15
\* The longest string (in characters) given to the string functions.
MaxStr == 3
\* The number of calls made through the C interface in one process.
MaxCalls == 4
\* The largest row id the words table hands out.
MaxId == 2
\* The number of rows the four child tables hold together, and the largest
\* row id a child table hands out.
MaxChildren == 1
\* The number of lines of an imported file.
MaxLines == 7
\* The import commits every 10000 lines and reports progress every 1000;
\* the model keeps both periods and shortens them.
CommitEvery == 3
ProgressEvery == 2

\* ------------------------------------------------------------ characters
\* "e_acute" stands for U+00E9, a two-byte lowercase letter; "quote" (the
\* double quote) is among the characters of some queries only.
Alphabet == {"a", "b", "A", "e_acute", " ", "*", "%", "_"}

\* UTF-8 width of a character (str::len counts bytes).
ByteLen(c) == IF c = "e_acute" THEN 2 ELSE 1

\* Unicode code point; UTF-8 byte order (SQLite BINARY collation) agrees
\* with code point order.
CodePoint(c) ==
    CASE c = " " -> 32
      [] c = "quote" -> 34
      [] c = "%" -> 37
      [] c = "*" -> 42
      [] c = "_" -> 95
      [] c = "A" -> 65
      [] c = "a" -> 97
      [] c = "b" -> 98
      [] c = "e_acute" -> 233
      [] OTHER -> 0

\* char::to_lowercase, as used by str::to_lowercase.
ToLowerChar(c) == IF c = "A" THEN "a" ELSE c

\* SQLite LIKE and LOWER() fold ASCII letters only.
AsciiFold(c) == IF c = "A" THEN "a" ELSE c

\* char::is_whitespace
IsWhitespace(c) == c = " "

\* Characters the unicode61 tokenizer keeps in a token (letters, digits).
IsTokenChar(c) == c \in {"a", "b", "A", "e_acute"}

\* unicode61 folds case and removes diacritics.
TokenFold(c) ==
    CASE c = "A" -> "a"
      [] c = "e_acute" -> "e"
      [] OTHER -> c

\* Characters FTS5 accepts in a bareword of a query: ASCII letters and
\* digits, underscore, and every non-ASCII character.
IsBarewordChar(c) == c \in {"a", "b", "A", "e_acute", "_"}

\* --------------------------------------------------------------- strings
Min2(x, y) == IF x <= y THEN x ELSE y

RECURSIVE Bytes(_)
\* str::len: the length in bytes.
Bytes(s) == IF s = <<>> THEN 0 ELSE ByteLen(Head(s)) + Bytes(Tail(s))

\* str::is_char_boundary
IsCharBoundary(s, k) == \E n \in 0..Len(s) : Bytes(SubSeq(s, 1, n)) = k

\* The number of characters of s that end at or before byte offset k.
CharsWithin(s, k) ==
    Cardinality({n \in 1..Len(s) : Bytes(SubSeq(s, 1, n)) <= k})

\* &s[..k] for a k that is a character boundary.
BytePrefix(s, k) == SubSeq(s, 1, CharsWithin(s, k))

\* &s[k..] for a k that is a character boundary.
ByteSuffix(s, k) == SubSeq(s, CharsWithin(s, k) + 1, Len(s))

\* str::to_lowercase
ToLower(s) == [i \in 1..Len(s) |-> ToLowerChar(s[i])]

RECURSIVE TrimStart(_)
TrimStart(s) ==
    IF s # <<>> /\ IsWhitespace(Head(s)) THEN TrimStart(Tail(s)) ELSE s

RECURSIVE TrimEnd(_)
TrimEnd(s) ==
    IF s # <<>> /\ IsWhitespace(s[Len(s)])
    THEN TrimEnd(SubSeq(s, 1, Len(s) - 1))
    ELSE s

\* A query used as typed.
NoTrim(s) == s

\* str::trim
Trim(s) == TrimEnd(TrimStart(s))

RECURSIVE SplitWhitespace(_, _)
\* str::split_whitespace: the maximal runs of non-whitespace characters;
\* cur is the run being read.
SplitWhitespace(s, cur) ==
    IF s = <<>>
    THEN IF cur = <<>> THEN <<>> ELSE <<cur>>
    ELSE IF IsWhitespace(Head(s))
         THEN (IF cur = <<>> THEN <<>> ELSE <<cur>>)
              \o SplitWhitespace(Tail(s), <<>>)
         ELSE SplitWhitespace(Tail(s), Append(cur, Head(s)))

RECURSIVE JoinWith(_, _)
\* [String]::join(sep)
JoinWith(ws, sep) ==
    IF ws = <<>> THEN <<>>
    ELSE IF Len(ws) = 1 THEN ws[1]
    ELSE ws[1] \o sep \o JoinWith(Tail(ws), sep)

RECURSIVE ReplaceChars(_)
\* query.replace('"', "\"\"").replace(['*', '^', ':'], " ")
ReplaceChars(s) ==
    IF s = <<>> THEN <<>>
    ELSE (CASE Head(s) = "quote" -> <<"quote", "quote">>
            [] Head(s) \in {"*", "^", ":"} -> <<" ">>
            [] OTHER -> <<Head(s)>>) \o ReplaceChars(Tail(s))

\* A preparation that marks only the whole query as a prefix.
prepare_last_term_only(q) ==
    LET ws == SplitWhitespace(ReplaceChars(q), <<>>)
    IN  IF ws = <<>> THEN <<>> ELSE Append(JoinWith(ws, <<" ">>), "*")

\* prepare_fts_query: escape, split into words, make each a prefix term.
prepare_fts_query(q) ==
    LET words == SplitWhitespace(ReplaceChars(q), <<>>)
    IN  IF words = <<>> THEN <<>>
        ELSE JoinWith([i \in 1..Len(words) |-> Append(words[i], "*")], <<" ">>)

\* --------------------------------------------------------- edit distance
RECURSIVE LevFillRowNoMatch(_, _, _, _, _)
\* An inner loop that charges a substitution even for equal characters.
LevFillRowNoMatch(a, bj, prev, curr, i) ==
    IF i > Len(a) THEN curr
    ELSE LET cell == Min2(Min2(prev[i + 1] + 1, curr[i] + 1), prev[i] + 1)
         IN  LevFillRowNoMatch(a, bj, prev, Append(curr, cell), i + 1)

RECURSIVE LevFillRow(_, _, _, _, _)
\* The inner loop over i: curr holds curr_row[0..i-1] (one-based here).
LevFillRow(a, bj, prev, curr, i) ==
    IF i > Len(a) THEN curr
    ELSE LET cost == IF a[i] = bj THEN 0 ELSE 1
             cell == Min2(Min2(prev[i + 1] + 1, curr[i] + 1), prev[i] + cost)
         IN  LevFillRow(a, bj, prev, Append(curr, cell), i + 1)

RECURSIVE LevRows(_, _, _, _)
\* The outer loop over j; prev is prev_row after the swap.
LevRows(a, b, prev, j) ==
    IF j > Len(b) THEN prev
    ELSE LevRows(a, b, LevFillRow(a, b[j], prev, <<j>>, 1), j + 1)

\* levenshtein_distance for Len(a) <= Len(b), both non-empty.
LevOrdered(a, b) == LevRows(a, b, [k \in 1..(Len(a) + 1) |-> k - 1], 1)[Len(a) + 1]

levenshtein_distance(a, b) ==
    IF Len(a) = 0 THEN Len(b)
    ELSE IF Len(b) = 0 THEN Len(a)
    ELSE IF Len(a) > Len(b) THEN LevOrdered(b, a)
    ELSE LevOrdered(a, b)

\* The cell without the transposition step.
DamCellPlain(a, b, d, i, j) ==
    LET cost == IF a[i] = b[j] THEN 0 ELSE 1
    IN  Min2(Min2(d[i - 1][j] + 1, d[i][j - 1] + 1), d[i - 1][j - 1] + cost)

\* The value stored in d[i][j]: the three edits, then the transposition
\* when the two last characters of each prefix are the mirrored pair.
DamCell(a, b, d, i, j) ==
    LET cost == IF a[i] = b[j] THEN 0 ELSE 1
        cell == Min2(Min2(d[i - 1][j] + 1, d[i][j - 1] + 1), d[i - 1][j - 1] + cost)
    IN  IF i > 1 /\ j > 1 /\ a[i] = b[j - 1] /\ a[i - 1] = b[j]
        THEN Min2(cell, d[i - 2][j - 2] + 1)
        ELSE cell

RECURSIVE DamFill(_, _, _, _, _)
\* The loops for i in 1..=m, for j in 1..=n over the full matrix d.
DamFill(a, b, d, i, j) ==
    IF i > Len(a) THEN d
    ELSE IF j > Len(b) THEN DamFill(a, b, d, i + 1, 1)
    ELSE DamFill(a, b, [d EXCEPT ![i][j] = DamCell(a, b, d, i, j)], i, j + 1)

damerau_levenshtein_distance(a, b) ==
    IF Len(a) = 0 THEN Len(b)
    ELSE IF Len(b) = 0 THEN Len(a)
    ELSE LET d0 == [i \in 0..Len(a) |->
                      [j \in 0..Len(b) |-> IF j = 0 THEN i ELSE IF i = 0 THEN j ELSE 0]]
         IN  DamFill(a, b, d0, 1, 1)[Len(a)][Len(b)]

\* ----------------------------------------------------------------- store
\* Program constants of search.rs.
MAX_FUZZY_DISTANCE == 2
MIN_FUZZY_QUERY_LENGTH == 3
FuzzyPrefixLimit == 1000
FuzzySuffixLimit == 500

\* A lookup without its LIMIT.
TakeAll(s, n) == s

\* The first n elements of a sequence (SQL LIMIT, Vec::truncate).
Take(s, n) == SubSeq(s, 1, Min2(n, Len(s)))

\* The elements of the finite set S of rowids in the order given by the
\* strict total order less, a set of pairs <<i, j>> with i before j.
OrderBy(S, less) ==
    [k \in 1..Cardinality(S) |->
        CHOOSE i \in S : Cardinality({j \in S : <<j, i>> \in less}) = k - 1]

\* Rows in rowid order: the order of a scan of the words table or of
\* idx_words_word among equal headwords.
ByRowid(S) == OrderBy(S, {p \in S \X S : p[1] < p[2]})

RECURSIVE StrLess(_, _)
\* BINARY collation: memcmp of the UTF-8 bytes, the shorter string first
\* when it is a prefix of the other.
StrLess(s, t) ==
    IF t = <<>> THEN FALSE
    ELSE IF s = <<>> THEN TRUE
    ELSE IF Head(s) = Head(t) THEN StrLess(Tail(s), Tail(t))
    ELSE CodePoint(Head(s)) < CodePoint(Head(t))

RECURSIVE LikeMatch(_, _)
\* SQLite's LIKE: % matches any run of characters, _ any one character,
\* and any other pattern character matches itself up to ASCII case.
LikeMatch(p, s) ==
    IF p = <<>> THEN s = <<>>
    ELSE IF Head(p) = "%"
         THEN LikeMatch(Tail(p), s) \/ (s # <<>> /\ LikeMatch(p, Tail(s)))
         ELSE /\ s # <<>>
              /\ (Head(p) = "_" \/ AsciiFold(Head(p)) = AsciiFold(Head(s)))
              /\ LikeMatch(Tail(p), Tail(s))

\* SearchResult::new / with_score; tier records which tier built the row,
\* and sub, set by the index tier, orders scores that agree in score.
Row(st, i, score, tier) ==
    [id |-> i, word |-> st[i], score |-> score, sub |-> 0, tier |-> tier]

\* search_exact: WHERE w.word = ? LIMIT ?
search_exact(st, word, lim) ==
    LET ids == ByRowid({i \in 1..Len(st) : st[i] = word})
    IN  Take([k \in 1..Len(ids) |-> Row(st, ids[k], 0, "exact")], lim)

\* ORDER BY length(w.word), w.word, ties in rowid order.
PrefixLess(st, i, j) ==
    \/ Len(st[i]) < Len(st[j])
    \/ /\ Len(st[i]) = Len(st[j])
       /\ \/ StrLess(st[i], st[j])
          \/ (st[i] = st[j] /\ i < j)

\* search_prefix: WHERE w.word LIKE 'prefix%' ORDER BY ... LIMIT ?
search_prefix(st, prefix, lim) ==
    LET pattern == Append(prefix, "%")
        found == {i \in 1..Len(st) : LikeMatch(pattern, st[i])}
        ids == OrderBy(found, {p \in found \X found : PrefixLess(st, p[1], p[2])})
    IN  Take([k \in 1..Len(ids) |-> Row(st, ids[k], 0, "prefix")], lim)

RECURSIVE FtsTokens(_, _)
\* The unicode61 tokenizer: maximal runs of token characters, folded.
FtsTokens(s, cur) ==
    IF s = <<>>
    THEN IF cur = <<>> THEN <<>> ELSE <<cur>>
    ELSE IF IsTokenChar(Head(s))
         THEN FtsTokens(Tail(s), Append(cur, TokenFold(Head(s))))
         ELSE (IF cur = <<>> THEN <<>> ELSE <<cur>>)
              \o FtsTokens(Tail(s), <<>>)

IsPrefixOf(p, s) == Len(p) <= Len(s) /\ SubSeq(s, 1, Len(p)) = p

\* A phrase read so far, when it is a bareword: closed by what follows it.
FtsFlush(phrases, cur) ==
    IF cur = <<>> THEN phrases ELSE Append(phrases, [text |-> cur, prefix |-> FALSE])

FtsSyntaxError == [ok |-> FALSE, phrases |-> <<>>]

\* The phrases with the last one marked as a prefix; none when there is no
\* phrase to mark or the last one is marked already.
FtsStarred(ps) ==
    IF ps = <<>> \/ ps[Len(ps)].prefix
    THEN <<>>
    ELSE [ps EXCEPT ![Len(ps)].prefix = TRUE]

RECURSIVE FtsLex(_, _, _, _)
\* The FTS5 query parser on an expression of phrases: a phrase is a
\* bareword or a string in double quotes (with "" for a quote inside it), a
\* * after a phrase marks it as a prefix, phrases that follow each other
\* are joined by AND.  cur is the phrase being read, quoted tells whether
\* it is a string.
FtsLex(s, phrases, cur, quoted) ==
    IF s = <<>>
    THEN IF quoted THEN FtsSyntaxError
         ELSE [ok |-> TRUE, phrases |-> FtsFlush(phrases, cur)]
    ELSE IF quoted
    THEN IF Head(s) # "quote"
         THEN FtsLex(Tail(s), phrases, Append(cur, Head(s)), TRUE)
         ELSE IF Len(s) >= 2 /\ s[2] = "quote"
         THEN FtsLex(Tail(Tail(s)), phrases, Append(cur, "quote"), TRUE)
         ELSE FtsLex(Tail(s), Append(phrases, [text |-> cur, prefix |-> FALSE]),
                     <<>>, FALSE)
    ELSE IF Head(s) = "quote"
    THEN FtsLex(Tail(s), FtsFlush(phrases, cur), <<>>, TRUE)
    ELSE IF IsBarewordChar(Head(s))
    THEN FtsLex(Tail(s), phrases, Append(cur, Head(s)), FALSE)
    ELSE IF IsWhitespace(Head(s))
    THEN FtsLex(Tail(s), FtsFlush(phrases, cur), <<>>, FALSE)
    ELSE IF Head(s) = "*"
    THEN IF FtsStarred(FtsFlush(phrases, cur)) = <<>>
         THEN FtsSyntaxError
         ELSE FtsLex(Tail(s), FtsStarred(FtsFlush(phrases, cur)), <<>>, FALSE)
    ELSE FtsSyntaxError

\* The phrases of a query, each with its text and whether it is a prefix.
FtsTerms(fq) == FtsLex(fq, <<>>, <<>>, FALSE).phrases

\* FTS5 rejects an empty expression, a character outside barewords and
\* strings, an unterminated string and a * that follows no phrase.
FtsSyntaxOk(fq) ==
    FtsLex(fq, <<>>, <<>>, FALSE) \notin {FtsSyntaxError, [ok |-> TRUE, phrases |-> <<>>]}

\* A phrase matches a document when its tokens occur as consecutive tokens
\* of the document, the last one as a prefix when the phrase is marked so.
PhraseAt(doc, phrase, prefix, at) ==
    /\ at + Len(phrase) - 1 <= Len(doc)
    /\ \A n \in 1..Len(phrase) :
          IF n = Len(phrase) /\ prefix
          THEN IsPrefixOf(phrase[n], doc[at + n - 1])
          ELSE phrase[n] = doc[at + n - 1]

PhraseMatch(doc, phrase, prefix) ==
    /\ phrase # <<>>
    /\ \E at \in 1..Len(doc) : PhraseAt(doc, phrase, prefix, at)

\* The number of places of a document where a phrase occurs.
PhraseHits(doc, phrase, prefix) ==
    Cardinality({at \in 1..Len(doc) : PhraseAt(doc, phrase, prefix, at)})

\* words_fts MATCH fq: every phrase of the query matches (implicit AND).  A
\* phrase without a token character is left out of the expression; an
\* expression of such phrases only matches nothing.
TermsMatch(doc, terms) ==
    /\ \E k \in 1..Len(terms) : FtsTokens(terms[k].text, <<>>) # <<>>
    /\ \A k \in 1..Len(terms) :
          \/ FtsTokens(terms[k].text, <<>>) = <<>>
          \/ PhraseMatch(doc, FtsTokens(terms[k].text, <<>>), terms[k].prefix)

FtsMatches(word, fq) == TermsMatch(FtsTokens(word, <<>>), FtsTerms(fq))

\* f64 scores as integers: 1.0 is ScoreUnit.
ScoreUnit == 100000000

\* ln k for the odd k up to 17, in units of 1e-8.
LnOdd ==
    (1 :> 0) @@ (3 :> 109861229) @@ (5 :> 160943791) @@ (7 :> 194591015)
    @@ (9 :> 219722458) @@ (11 :> 239789527) @@ (13 :> 256494936)
    @@ (15 :> 270805020) @@ (17 :> 283321334)

\* The inverse document frequency bm25 gives a phrase that nHit of the
\* nRow rows of the index hold: ln((nRow - nHit + 0.5) / (nHit + 0.5)), and
\* 1e-6 when that is not positive.
Bm25Idf(nRow, nHit) ==
    IF 2 * (nRow - nHit) + 1 <= 2 * nHit + 1
    THEN ScoreUnit \div 1000000
    ELSE LnOdd[2 * (nRow - nHit) + 1] - LnOdd[2 * nHit + 1]

\* a * num / den, rounded to the nearest integer, without a product above
\* the integers of the model checker.
MulDiv(a, num, den) ==
    (a \div den) * num + (2 * (a % den) * num + den) \div (2 * den)

\* The occurrences of a phrase of the query in a document.
TermHits(doc, term) ==
    IF FtsTokens(term.text, <<>>) = <<>>
    THEN 0
    ELSE PhraseHits(doc, FtsTokens(term.text, <<>>), term.prefix)

\* The number of rows that hold a phrase of the query.
RowsWith(st, term) ==
    Cardinality({j \in 1..Len(st) : TermHits(FtsTokens(st[j], <<>>), term) > 0})

RECURSIVE TotalTokens(_)
\* The number of tokens of all rows of the index.
TotalTokens(st) ==
    IF st = <<>> THEN 0
    ELSE Len(FtsTokens(Head(st), <<>>)) + TotalTokens(Tail(st))

\* The share of one phrase in the bm25 of a row of len tokens that holds it
\* tf times: idf * tf * (k1 + 1) / (tf + k1 * (1 - b + b * len / avgdl)) with
\* k1 = 1.2, b = 0.75 and avgdl = nTok / nRow, both sides of the fraction
\* multiplied by 10 * nTok.
Bm25Part(idf, tf, len, nRow, nTok) ==
    IF tf = 0 THEN 0
    ELSE MulDiv(idf, 22 * tf * nTok, 10 * tf * nTok + 3 * nTok + 9 * len * nRow)

RECURSIVE Bm25Sum(_, _, _, _)
Bm25Sum(st, doc, terms, nTok) ==
    IF terms = <<>> THEN 0
    ELSE (IF TermHits(doc, Head(terms)) = 0 THEN 0
          ELSE Bm25Part(Bm25Idf(Len(st), RowsWith(st, Head(terms))),
                        TermHits(doc, Head(terms)), Len(doc), Len(st), nTok))
         + Bm25Sum(st, doc, Tail(terms), nTok)

\* ------------------------------------------------- f64 arithmetic of bm25
\* A natural number as its digits to the base 2^15, lowest first, without
\* leading zeros.
LimbBits == 15
Limb == 2 ^ LimbBits

RECURSIVE LOf(_)
LOf(n) == IF n = 0 THEN <<>> ELSE <<n % Limb>> \o LOf(n \div Limb)

LAt(a, k) == IF k <= Len(a) THEN a[k] ELSE 0

RECURSIVE LTrim(_)
LTrim(a) ==
    IF a # <<>> /\ a[Len(a)] = 0 THEN LTrim(SubSeq(a, 1, Len(a) - 1)) ELSE a

\* Limb * a + d
LPush(d, a) == IF a = <<>> /\ d = 0 THEN <<>> ELSE <<d>> \o a

RECURSIVE LAddFrom(_, _, _, _)
LAddFrom(a, b, k, carry) ==
    IF k > Len(a) /\ k > Len(b)
    THEN (IF carry = 0 THEN <<>> ELSE <<carry>>)
    ELSE <<(LAt(a, k) + LAt(b, k) + carry) % Limb>>
         \o LAddFrom(a, b, k + 1, (LAt(a, k) + LAt(b, k) + carry) \div Limb)

LAdd(a, b) == LAddFrom(a, b, 1, 0)

RECURSIVE LSubFrom(_, _, _, _)
LSubFrom(a, b, k, borrow) ==
    IF k > Len(a) THEN <<>>
    ELSE <<(LAt(a, k) - LAt(b, k) - borrow + Limb) % Limb>>
         \o LSubFrom(a, b, k + 1,
                     IF LAt(a, k) - LAt(b, k) - borrow < 0 THEN 1 ELSE 0)

\* a - b for a >= b.
LSub(a, b) == LTrim(LSubFrom(a, b, 1, 0))

RECURSIVE LLessAt(_, _, _)
LLessAt(a, b, k) ==
    IF k = 0 THEN FALSE
    ELSE IF a[k] # b[k] THEN a[k] < b[k]
    ELSE LLessAt(a, b, k - 1)

LLess(a, b) ==
    IF Len(a) # Len(b) THEN Len(a) < Len(b) ELSE LLessAt(a, b, Len(a))

RECURSIVE LMulSmallFrom(_, _, _, _)
LMulSmallFrom(a, d, k, carry) ==
    IF k > Len(a)
    THEN (IF carry = 0 THEN <<>> ELSE <<carry>>)
    ELSE <<(a[k] * d + carry) % Limb>>
         \o LMulSmallFrom(a, d, k + 1, (a[k] * d + carry) \div Limb)

\* a * d for a digit d.
LMulSmall(a, d) == LTrim(LMulSmallFrom(a, d, 1, 0))

LShlLimbs(a, w) == IF a = <<>> THEN <<>> ELSE [i \in 1..w |-> 0] \o a

RECURSIVE LMulFrom(_, _, _)
LMulFrom(a, b, k) ==
    IF k > Len(b) THEN <<>>
    ELSE LAdd(LShlLimbs(LMulSmall(a, b[k]), k - 1), LMulFrom(a, b, k + 1))

LMul(a, b) == LMulFrom(a, b, 1)

\* a * 2^s
LShl(a, s) == LShlLimbs(LMulSmall(a, 2 ^ (s % LimbBits)), s \div LimbBits)

\* a \div 2^s
LShr(a, s) ==
    LTrim([i \in 1..(Len(a) - s \div LimbBits) |->
              (LAt(a, i + s \div LimbBits) \div 2 ^ (s % LimbBits))
              + (LAt(a, i + s \div LimbBits + 1) % 2 ^ (s % LimbBits))
                * 2 ^ (LimbBits - (s % LimbBits))])

\* Binary digit j of a, counted from 0.
LBit(a, j) == (LAt(a, j \div LimbBits + 1) \div 2 ^ (j % LimbBits)) % 2

RECURSIVE IntBits(_)
IntBits(n) == IF n = 0 THEN 0 ELSE 1 + IntBits(n \div 2)

\* The number of binary digits of a.
LBits(a) ==
    IF a = <<>> THEN 0 ELSE LimbBits * (Len(a) - 1) + IntBits(a[Len(a)])

RECURSIVE LDivDigit(_, _, _, _)
\* The largest digit d with d * y <= rem, found from its highest binary
\* digit down.
LDivDigit(rem, y, bit, d) ==
    IF bit < 0 THEN d
    ELSE IF LLess(rem, LMulSmall(y, d + 2 ^ bit))
    THEN LDivDigit(rem, y, bit - 1, d)
    ELSE LDivDigit(rem, y, bit - 1, d + 2 ^ bit)

LDivPut(y, q, rem, d) == [q |-> LPush(d, q), r |-> LSub(rem, LMulSmall(y, d))]

LDivNext(y, q, rem) == LDivPut(y, q, rem, LDivDigit(rem, y, LimbBits - 1, 0))

\* One more digit d of the dividend below what prev is the division of.
LDivDown(y, d, prev) == LDivNext(y, prev.q, LPush(d, prev.r))

RECURSIVE LDivFrom(_, _, _)
\* Long division of the digits k and above of x by y.
LDivFrom(x, y, k) ==
    IF k > Len(x) THEN [q |-> <<>>, r |-> <<>>]
    ELSE LDivDown(y, x[k], LDivFrom(x, y, k + 1))

\* A non-negative double: m * 2^e with m odd, or 0.
F64Zero == [m |-> <<>>, e |-> 0]

RECURSIVE IntTrailingZeros(_)
IntTrailingZeros(n) == IF n % 2 = 1 THEN 0 ELSE 1 + IntTrailingZeros(n \div 2)

RECURSIVE F64Canon(_, _)
F64Canon(m, e) ==
    IF m = <<>> THEN F64Zero
    ELSE IF m[1] = 0 THEN F64Canon(Tail(m), e + LimbBits)
    ELSE [m |-> LShr(m, IntTrailingZeros(m[1])), e |-> e + IntTrailingZeros(m[1])]

\* The binary digits of the significand of a double.
F64Digits == 53

\* Round m * 2^e to nearest, ties to even; sticky tells of digits lost
\* below m.
F64Round(m, e, sticky) ==
    IF LBits(m) <= F64Digits THEN F64Canon(m, e)
    ELSE LET k == LBits(m) - F64Digits
             up == /\ LBit(m, k - 1) = 1
                   /\ \/ sticky
                      \/ \E j \in 0..(k - 2) : LBit(m, j) = 1
                      \/ LBit(m, k) = 1
         IN  F64Canon(IF up THEN LAdd(LShr(m, k), <<1>>) ELSE LShr(m, k), e + k)

F64Of(n) == F64Canon(LOf(n), 0)

F64Aligned(x, y) == LShl(x.m, x.e - (IF x.e < y.e THEN x.e ELSE y.e))

F64Less(x, y) ==
    IF x.m = <<>> THEN y.m # <<>>
    ELSE IF y.m = <<>> THEN FALSE
    ELSE LLess(F64Aligned(x, y), F64Aligned(y, x))

F64Add(x, y) ==
    IF x.m = <<>> THEN y
    ELSE IF y.m = <<>> THEN x
    ELSE F64Round(LAdd(F64Aligned(x, y), F64Aligned(y, x)),
                  IF x.e < y.e THEN x.e ELSE y.e, FALSE)

\* x - y for x >= y.
F64Sub(x, y) ==
    IF y.m = <<>> THEN x
    ELSE F64Round(LSub(F64Aligned(x, y), F64Aligned(y, x)),
                  IF x.e < y.e THEN x.e ELSE y.e, FALSE)

F64Mul(x, y) ==
    IF x.m = <<>> \/ y.m = <<>> THEN F64Zero
    ELSE F64Round(LMul(x.m, y.m), x.e + y.e, FALSE)

F64DivRound(d, e) == F64Round(d.q, e, d.r # <<>>)

F64DivShifted(x, y, s) ==
    F64DivRound(LDivFrom(LShl(x.m, s), y.m, 1), x.e - y.e - s)

\* x / y for y > 0: the quotient is taken to at least two digits more than
\* the significand holds, the remainder tells of what lies below.
F64Div(x, y) ==
    IF x.m = <<>> THEN F64Zero
    ELSE F64DivShifted(x, y,
             IF F64Digits + 2 + LBits(y.m) - LBits(x.m) > 0
             THEN F64Digits + 2 + LBits(y.m) - LBits(x.m) ELSE 0)

\* The constants of bm25, k1 = 1.2 and b = 0.75, and the 1e-6 that stands
\* for an idf that is not positive.
Bm25K1 == F64Div(F64Of(12), F64Of(10))
Bm25B == F64Div(F64Of(3), F64Of(4))
Bm25MinIdf == F64Div(F64Of(1), F64Of(1000000))

\* log((nRow - nHit + 0.5) / (nHit + 0.5)) as a double, for a phrase that
\* fewer than half of the nRow <= 8 rows hold.
LnF64 ==
    (<<3, 1>> :> [m |-> <<2601, 31361, 12637, 65>>, e |-> -52])
    @@ (<<4, 1>> :> [m |-> <<22349, 26378, 14880, 108>>, e |-> -52])
    @@ (<<5, 1>> :> [m |-> <<779, 30042, 20393, 140>>, e |-> -52])
    @@ (<<5, 2>> :> [m |-> <<13455, 12838, 8971, 172>>, e |-> -54])
    @@ (<<6, 1>> :> [m |-> <<27533, 26786, 10099, 166>>, e |-> -52])
    @@ (<<6, 2>> :> [m |-> <<15473, 32108, 20261, 37>>, e |-> -51])
    @@ (<<7, 1>> :> [m |-> <<5527, 14188, 22647, 187>>, e |-> -52])
    @@ (<<7, 2>> :> [m |-> <<17097, 23619, 27691, 201>>, e |-> -53])
    @@ (<<7, 3>> :> [m |-> <<12025, 14653, 22052, 128>>, e |-> -54])
    @@ (<<8, 1>> :> [m |-> <<3379, 28635, 263, 206>>, e |-> -52])
    @@ (<<8, 2>> :> [m |-> <<5853, 31190, 20018, 244>>, e |-> -53])
    @@ (<<8, 3>> :> [m |-> <<12369, 9734, 29621>>, e |-> -46])

Bm25IdfF64(nRow, nHit) ==
    IF nRow - nHit <= nHit THEN Bm25MinIdf ELSE LnF64[<<nRow, nHit>>]

\* idf * ((tf * (k1 + 1.0)) / (tf + k1 * (1 - b + b * D / avgdl)))
Bm25PartF64(idf, tf, len, avgdl) ==
    F64Mul(idf,
           F64Div(F64Mul(tf, F64Add(Bm25K1, F64Of(1))),
                  F64Add(tf,
                         F64Mul(Bm25K1,
                                F64Add(F64Sub(F64Of(1), Bm25B),
                                       F64Div(F64Mul(Bm25B, len), avgdl))))))

RECURSIVE Bm25SumF64(_, _, _, _, _)
\* score += the share of each phrase, in the order of the phrases.
Bm25SumF64(st, doc, terms, avgdl, score) ==
    IF terms = <<>> THEN score
    ELSE Bm25SumF64(st, doc, Tail(terms), avgdl,
             IF TermHits(doc, Head(terms)) = 0 THEN score
             ELSE F64Add(score,
                         Bm25PartF64(Bm25IdfF64(Len(st), RowsWith(st, Head(terms))),
                                     F64Of(TermHits(doc, Head(terms))),
                                     F64Of(Len(doc)), avgdl)))

\* The bm25 of row i as the double FTS5 computes, avgdl being nTok / nRow.
Bm25F64(st, terms, nTok, i) ==
    Bm25SumF64(st, FtsTokens(st[i], <<>>), terms,
               F64Div(F64Of(nTok), F64Of(Len(st))), F64Zero)

\* 2.0 + rank.abs() as a double.
FtsScoreF64(x) == F64Add(F64Of(2), x)

\* The occurrences of each phrase of the query in row i.
RowHits(st, terms, i) ==
    [k \in 1..Len(terms) |-> TermHits(FtsTokens(st[i], <<>>), terms[k])]

\* The bm25 of row i is below that of row j, as doubles.  Rows with the
\* same occurrences of every phrase differ in their length only: of equal
\* length they have the same bm25, and the longer one has the smaller by
\* far more than a double rounds away.  Otherwise the doubles decide.
Bm25Less(st, terms, nTok, i, j) ==
    IF RowHits(st, terms, i) = RowHits(st, terms, j)
    THEN Len(FtsTokens(st[i], <<>>)) > Len(FtsTokens(st[j], <<>>))
    ELSE F64Less(Bm25F64(st, terms, nTok, i), Bm25F64(st, terms, nTok, j))

\* The same for the scores 2.0 + rank.abs(), whose sum can round two
\* different ranks to one double.
FtsScoreLess(st, terms, nTok, i, j) ==
    IF RowHits(st, terms, i) = RowHits(st, terms, j)
    THEN Len(FtsTokens(st[i], <<>>)) > Len(FtsTokens(st[j], <<>>))
    ELSE F64Less(FtsScoreF64(Bm25F64(st, terms, nTok, i)),
                 FtsScoreF64(Bm25F64(st, terms, nTok, j)))

\* The number of matching rows whose index score is below that of row i:
\* it orders the index scores of one call as the doubles do, also where
\* they agree to eight decimals.
FtsScorePlace(st, terms, nTok, i) ==
    Cardinality({j \in 1..Len(st) :
        /\ TermsMatch(FtsTokens(st[j], <<>>), terms)
        /\ FtsScoreLess(st, terms, nTok, j, i)})

\* The rank column of words_fts for row i under the phrases of the query:
\* minus the bm25 of the row.
bm25_rank(st, terms, nTok, i) ==
    -Bm25Sum(st, FtsTokens(st[i], <<>>), terms, nTok)

RECURSIVE IndexRanksTo(_, _, _, _)
\* The ranks of the first n rows: of every row the query matches its rank,
\* 0 for the others.
IndexRanksTo(st, terms, nTok, n) ==
    IF n = 0 THEN <<>>
    ELSE Append(IndexRanksTo(st, terms, nTok, n - 1),
                IF TermsMatch(FtsTokens(st[n], <<>>), terms)
                THEN bm25_rank(st, terms, nTok, n) ELSE 0)

IndexRanks(st, fq) == IndexRanksTo(st, FtsTerms(fq), TotalTokens(st), Len(st))

RECURSIVE RankPlacesTo(_, _, _, _)
\* For each of the rows 1..n that match, the number of matching rows whose
\* rank is lower, that is whose bm25 is higher as a double.
RankPlacesTo(st, terms, nTok, n) ==
    IF n = 0 THEN <<>>
    ELSE Append(RankPlacesTo(st, terms, nTok, n - 1),
                IF TermsMatch(FtsTokens(st[n], <<>>), terms)
                THEN Cardinality({j \in 1..Len(st) :
                         /\ TermsMatch(FtsTokens(st[j], <<>>), terms)
                         /\ Bm25Less(st, terms, nTok, n, j)})
                ELSE 0)

RankPlaces(st, fq) == RankPlacesTo(st, FtsTerms(fq), TotalTokens(st), Len(st))

\* Row i stands before row j under ORDER BY rank: its rank is lower, or the
\* two are equal and its rowid is lower.
RankBefore(pl, i, j) == pl[i] < pl[j] \/ (pl[i] = pl[j] /\ i < j)

\* The matching rows in the order of ORDER BY rank, cut by LIMIT ?.
RankedRows(st, rk, pl, fq, lim) ==
    LET found == {i \in 1..Len(st) : FtsMatches(st[i], fq)}
        ids == OrderBy(found,
                   {p \in found \X found : RankBefore(pl, p[1], p[2])})
    IN  Take([k \in 1..Len(ids) |->
                [Row(st, ids[k], rk[ids[k]], "fts") EXCEPT !.sub = pl[ids[k]]]],
             lim)

\* search_fts: MATCH ? ORDER BY rank LIMIT ?, each row with its rank as
\* score.
search_fts(st, fq, lim) ==
    RankedRows(st, IndexRanks(st, fq), RankPlaces(st, fq), fq, lim)

\* ------------------------------------------------------------ fuzzy tier
Ids(rows) == {rows[k].id : k \in 1..Len(rows)}

\* a.score.partial_cmp(&b.score) is Less.  The score of a row is kept to
\* eight decimals; two index scores are compared as the doubles they are.
ScoreLess(a, b) ==
    IF a.tier = "fts" /\ b.tier = "fts" THEN a.sub < b.sub ELSE a.score < b.score

\* An insertion that puts an element before the elements of equal score.
InsertBeforeEqual(sorted, x) ==
    LET k == Cardinality({n \in 1..Len(sorted) : ScoreLess(sorted[n], x)})
    IN  SubSeq(sorted, 1, k) \o <<x>> \o SubSeq(sorted, k + 1, Len(sorted))

\* Vec::sort_by on score: a stable sort, built by inserting each element
\* after the elements whose score is not greater.
InsertByScore(sorted, x) ==
    LET k == Cardinality({n \in 1..Len(sorted) : ~ScoreLess(x, sorted[n])})
    IN  SubSeq(sorted, 1, k) \o <<x>> \o SubSeq(sorted, k + 1, Len(sorted))

\* A result list left in the order it was accumulated.
KeepOrder(rows) == rows

RECURSIVE SortByScore(_)
SortByScore(rows) ==
    IF rows = <<>> THEN <<>>
    ELSE InsertByScore(SortByScore(SubSeq(rows, 1, Len(rows) - 1)), rows[Len(rows)])

\* The distance filter: keep a candidate iff 0 < distance <= MAX_FUZZY_DISTANCE.
FuzzyKeeps(distance) == distance > 0 /\ distance <= MAX_FUZZY_DISTANCE

\* A fuzzy score that adds the distance as tenths.
FuzzyScoreInTenths(distance) == 3 * ScoreUnit + (ScoreUnit \div 10) * distance

\* The fuzzy score of a candidate at the given distance: 3.0 + distance.
FuzzyScore(distance) == 3 * ScoreUnit + ScoreUnit * distance

RECURSIVE FuzzyFirst(_, _, _)
\* The filter_map chain over the rows the first candidate lookup yields.
FuzzyFirst(st, query, cands) ==
    IF cands = <<>> THEN <<>>
    ELSE LET i == Head(cands)
             d == levenshtein_distance(query, ToLower(st[i]))
         IN  (IF FuzzyKeeps(d)
              THEN <<Row(st, i, FuzzyScore(d), "fuzzy")>>
              ELSE <<>>) \o FuzzyFirst(st, query, Tail(cands))

RECURSIVE FuzzyMore(_, _, _, _)
\* The loop over the rows the second candidate lookup yields, pushing onto
\* fuzzy_results.
FuzzyMore(st, query, cands, fuzzy_results) ==
    IF cands = <<>> THEN fuzzy_results
    ELSE LET i == Head(cands)
             d == levenshtein_distance(query, ToLower(st[i]))
         IN  FuzzyMore(st, query, Tail(cands),
                 IF i \in Ids(fuzzy_results) \/ ~FuzzyKeeps(d)
                 THEN fuzzy_results
                 ELSE Append(fuzzy_results, Row(st, i, FuzzyScore(d), "fuzzy")))

\* Whether search_fuzzy slices the query inside a character before its
\* first lookup (&query[..prefix_len]).
FuzzyPrefixPanics(query) == ~IsCharBoundary(query, Min2(2, Bytes(query)))

\* The prefix-anchored candidates: LOWER(w.word) LIKE LOWER('xy%') LIMIT 1000.
FuzzyPrefixCandidates(st, query) ==
    LET pattern == Append(BytePrefix(query, Min2(2, Bytes(query))), "%")
    IN  Take(ByRowid({i \in 1..Len(st) : LikeMatch(pattern, st[i])}),
             FuzzyPrefixLimit)

\* The suffix-anchored candidates: LIKE LOWER('_%uery%') LIMIT 500.
FuzzySuffixCandidates(st, query) ==
    LET pattern == <<"_", "%">> \o ByteSuffix(query, 1) \o <<"%">>
    IN  Take(ByRowid({i \in 1..Len(st) : LikeMatch(pattern, st[i])}),
             FuzzySuffixLimit)

\* A candidate lookup that no step fails: it yields every row it selects.
\* A cut after n rows is a failure of step n + 1, which for n the number of
\* selected rows is the step that would have ended the statement.
NoCut == FuzzyPrefixLimit + 1

\* search_fuzzy for the lowercased query: status "ok" with the rows, or
\* "panic" when a slice falls inside a character; lookups counts the store
\* queries made.  A step of a candidate statement that fails gives an Err
\* that filter_map(|r| r.ok()) drops, and ends the iteration of that
\* statement: the first lookup yields cut1 rows, the second cut2.
search_fuzzy(st, query, lim, cut1, cut2) ==
    IF FuzzyPrefixPanics(query)
    THEN [status |-> "panic", rows |-> <<>>, lookups |-> 0]
    ELSE LET first == FuzzyFirst(st, query,
                          Take(FuzzyPrefixCandidates(st, query), cut1))
         IN  IF Len(first) < lim /\ Bytes(query) >= 2
             THEN IF ~IsCharBoundary(query, 1)
                  THEN [status |-> "panic", rows |-> <<>>, lookups |-> 1]
                  ELSE [status |-> "ok",
                        rows |-> Take(SortByScore(FuzzyMore(st, query,
                                    Take(FuzzySuffixCandidates(st, query), cut2),
                                    first)), lim),
                        lookups |-> 2]
             ELSE [status |-> "ok", rows |-> Take(SortByScore(first), lim),
                   lookups |-> 1]

\* ---------------------------------------------------- search_words_offset
\* offset.saturating_add(limit) on u32
total_needed(limit, offset) == Min2(offset + limit, UMax)

\* A push loop without the membership test.
AppendAll(results, rows) == results \o rows

RECURSIVE AppendNew(_, _)
\* The loop that pushes a tier's rows: only results not already in the list.
AppendNew(results, rows) ==
    IF rows = <<>> THEN results
    ELSE AppendNew(IF Head(rows).id \in Ids(results)
                   THEN results
                   ELSE Append(results, Head(rows)),
                   Tail(rows))

\* The exact tier: every row is pushed with score 0.
ExactStep(st, q, tn) == search_exact(st, q, tn)

\* len_diff = word.len().saturating_sub(query.len()); score = 1.0 + 0.1 * len_diff
PrefixScore(word, q) ==
    ScoreUnit + (ScoreUnit \div 10)
        * (IF Bytes(word) > Bytes(q) THEN Bytes(word) - Bytes(q) ELSE 0)

\* The prefix tier, entered when results.len() < total_needed.
PrefixStep(st, q, tn, results) ==
    LET rows == search_prefix(st, q, tn - Len(results))
    IN  AppendNew(results,
            [k \in 1..Len(rows) |->
                [rows[k] EXCEPT !.score = PrefixScore(rows[k].word, q)]])

\* result.score = 2.0 + result.score.abs()
FtsScore(rank) == 2 * ScoreUnit + (IF rank < 0 THEN -rank ELSE rank)

\* The rows of search_fts with result.score = 2.0 + result.score.abs().
FtsScored(st, terms, nTok, rows) ==
    [k \in 1..Len(rows) |->
        [rows[k] EXCEPT !.score = FtsScore(rows[k].score),
                        !.sub = FtsScorePlace(st, terms, nTok, rows[k].id)]]

\* The index tier, entered when results.len() < total_needed.
FtsStep(st, q, tn, results) ==
    AppendNew(results,
        FtsScored(st, FtsTerms(prepare_fts_query(q)), TotalTokens(st),
                  search_fts(st, prepare_fts_query(q), tn - Len(results))))

\* The guard of the fuzzy tier.
FuzzyEnabled(q, tn, results) ==
    Len(results) < tn /\ Bytes(ToLower(q)) >= MIN_FUZZY_QUERY_LENGTH

\* usize::MAX of the target the code is built for: that of u32 on a 32-bit
\* target (the JNI module of ffi.rs is built for Android), its square-sized
\* counterpart on a 64-bit target.
UsizeMax32 == UMax
UsizeMax64 == (UMax + 1) * (UMax + 1) - 1
UsizeMaxes == {UsizeMax32, UsizeMax64}

\* A window whose end forgets the start.
SliceShort(sorted, limit, offset, usize_max) ==
    [status |-> "ok",
     rows |-> SubSeq(sorted, Min2(offset, Len(sorted)) + 1, Min2(limit, Len(sorted)))]

\* let start = min(offset, len); let end = min(start + limit, len);
\* results[start..end].  The sum is a usize sum: when it passes usize::MAX
\* a build with overflow checks panics at the sum, and a build without them
\* wraps the sum to a value below start and panics at the slice.
Slice(sorted, limit, offset, usize_max) ==
    LET start == Min2(offset, Len(sorted))
        end == Min2(start + limit, Len(sorted))
    IN  IF start + limit > usize_max
        THEN [status |-> "panic", rows |-> <<>>]
        ELSE [status |-> "ok", rows |-> SubSeq(sorted, start + 1, end)]

\* The fuzzy tier, the sort and the slice of search_words_offset on the
\* list r3 the first three tiers have accumulated.
FuzzySortSlice(st, q, tn, r3, limit, offset, usize_max) ==
    LET fz == search_fuzzy(st, ToLower(q), tn - Len(r3), NoCut, NoCut)
        r4 == IF FuzzyEnabled(q, tn, r3) THEN AppendNew(r3, fz.rows) ELSE r3
    IN  IF FuzzyEnabled(q, tn, r3) /\ fz.status = "panic"
        THEN [status |-> "panic", rows |-> <<>>]
        ELSE Slice(SortByScore(r4), limit, offset, usize_max)

\* search_words_offset against a store that answers every lookup: the
\* composition of the steps the actions below take one at a time.
search_words_offset(st, query, limit, offset, usize_max) ==
    LET q == Trim(query)
        tn == total_needed(limit, offset)
        r1 == ExactStep(st, q, tn)
        r2 == IF Len(r1) < tn THEN PrefixStep(st, q, tn, r1) ELSE r1
    IN  IF q = <<>> THEN [status |-> "ok", rows |-> <<>>]
        ELSE IF Len(r2) < tn /\ ~FtsSyntaxOk(prepare_fts_query(q))
        THEN [status |-> "err", rows |-> <<>>]
        ELSE FuzzySortSlice(st, q, tn,
                 IF Len(r2) < tn THEN FtsStep(st, q, tn, r2) ELSE r2,
                 limit, offset, usize_max)

\* ------------------------------------------------------------------ state
VARIABLES
    store,      \* the words table: store[i] is the headword of rowid i
    query,      \* the raw query argument
    limit,      \* the limit argument
    offset,     \* the offset argument
    pc,         \* where the call stands
    results,    \* the accumulated results vector
    outcome,    \* "none" while running, then "ok", "err" or "panic"
    returned,   \* the Vec returned by search_words_offset when outcome is "ok"
    lookups,    \* the store lookups made so far, each with the count held then
    fault,      \* whether the store failed a lookup or a row during the call
    apiResult   \* the Vec lib::search hands to its caller

\* A call of one of the string functions of search.rs.
VARIABLES
    unit,       \* the function called, "none" in a search call
    input,      \* its arguments
    output      \* its return value once pc is "returned"

\* The process behind the C interface of ffi.rs.
VARIABLES
    HANDLE,     \* the global Mutex<Option<DictHandle>>
    alive,      \* FALSE once a panic has ended the process
    log         \* the calls made so far, each with what it returned

\* The database behind a handle opened by init_database (db.rs).  Of a row
\* the model keeps the columns the schema's triggers and foreign keys read.
VARIABLES
    words,      \* the words table: the set of <<id, word>> rows
    words_fts,  \* the FTS5 index: the set of <<rowid, position, token>> postings
    children,   \* the rows of definitions, pronunciations, etymologies, translations
    last        \* the last call made on the connection and what it returned

\* A run of import_from_jsonl_with_stats (import.rs).
VARIABLES
    stats,      \* ImportStats: lines_processed, words_imported, errors, skipped
    importer    \* the loop: its state, the open transaction, the last progress

\* Threads calling the C interface at the same time.
VARIABLES
    mutex,      \* the thread that holds the lock of HANDLE, or "free"
    threads     \* what each thread is doing

searchVars == <<store, query, limit, offset, pc, results, outcome,
                returned, lookups, fault, apiResult>>
unitVars == <<unit, input, output>>
ffiVars == <<HANDLE, alive, log>>
dbVars == <<words, words_fts, children, last>>
importVars == <<stats, importer>>
threadVars == <<mutex, threads>>

\* The variables neither a search call nor a string function touches.
otherVars == <<ffiVars, dbVars, importVars, threadVars>>

\* The variables a search call leaves alone.
restVars == <<unitVars, otherVars>>

vars == <<searchVars, unitVars, ffiVars, dbVars, importVars, threadVars>>

\* Option<DictHandle>: None, or the handle of the database opened at path.
None == [some |-> FALSE, path |-> ""]
Some(path) == [some |-> TRUE, path |-> path]

\* No call has been made through the C interface.
NoFfi ==
    /\ HANDLE = None
    /\ alive = TRUE
    /\ log = <<>>

\* What a database call leaves in last: the function, its id argument (or
\* the id it returned), its Ok value, the words row it found before it ran
\* and the child rows it removed.
Called(op, id, ret, old, gone) ==
    [op |-> op, id |-> id, ret |-> ret, old |-> old, gone |-> gone]

\* The database init_database creates at a new path, before any call.
NoDb ==
    /\ words = {}
    /\ words_fts = {}
    /\ children = {}
    /\ last = Called("init_database", 0, TRUE, {}, {})

\* ImportStats::default()
NoStats == [lines_processed |-> 0, words_imported |-> 0, errors |-> 0, skipped |-> 0]

\* No import is running.
NoImport ==
    /\ stats = NoStats
    /\ importer = [state |-> "none", open |-> FALSE, in_txn |-> 0, reported |-> 0]

\* The threads that call the C interface.
Threads == {"t1", "t2"}

\* A thread outside every call.
Idle == [at |-> "idle", fn |-> "", uses |-> None, ret |-> ""]

\* No thread is inside a call.
NoThreads ==
    /\ mutex = "free"
    /\ threads = [t \in Threads |-> Idle]

NoOther == NoFfi /\ NoDb /\ NoImport /\ NoThreads

\* Headwords and queries the model draws from.
W_ab == <<"a", "b">>
W_aba == <<"a", "b", "a">>
W_abab == <<"a", "b", "a", "b">>
W_b_aba == <<"b", " ", "a", "b", "a">>
W_Ab == <<"A", "b">>
W_ae == <<"a", "e_acute">>
W_eab == <<"e_acute", "a", "b">>
W_aee == <<"a", "e_acute", "e_acute">>
W_ea == <<"e_acute", "a">>
W_eb == <<"e_acute", "b">>
W_Abab == <<"A", "b", "a", "b">>
W_abeee == <<"a", "b", "e_acute", "e_acute", "e_acute">>
W_a_b == <<"a", "_", "b">>
W_us == <<"_">>

\* Plain headwords that overlap as exact, prefix, index and fuzzy matches.
AsciiWords == {W_ab, W_aba, W_abab, W_b_aba}
AsciiQueries == {W_ab, W_aba, <<" ", "a", "b">>}
\* Headwords and queries with upper case, multi-byte, blank and reserved
\* characters.
SpecialWords == {W_ab, W_Ab, W_ae, W_eab}
SpecialQueries == {<<>>, <<" ">>, <<"*">>, <<"a">>, W_ae, W_eab}

StoresOver(ws, n) == UNION {[1..k -> ws] : k \in 0..n}

\* The rows the index matches for the prepared form of a query.
IndexMatches(st, q) ==
    LET fq == prepare_fts_query(Trim(q))
    IN  IF FtsSyntaxOk(fq)
        THEN {i \in 1..Len(st) : FtsMatches(st[i], fq)}
        ELSE {}

\* A call of search_words_offset.
InitCall(stores, queries, limits, offsets) ==
    /\ store \in stores
    /\ query \in queries
    /\ limit \in limits
    /\ offset \in offsets
    /\ pc = "call"
    /\ results = <<>>
    /\ outcome = "none"
    /\ returned = <<>>
    /\ lookups = <<>>
    /\ fault = FALSE
    /\ apiResult = <<>>
    /\ unit = "none"
    /\ input = <<>>
    /\ output = <<>>
    /\ NoOther

Init ==
    \/ InitCall(StoresOver(AsciiWords, MaxEntries), AsciiQueries,
                0..MaxLimit, 0..MaxOffset)
    \/ InitCall(StoresOver(SpecialWords, MaxEntries), SpecialQueries,
                0..MaxLimit, 0..MaxOffset)

\* Calls of pages of two and of four against stores of PagingEntries rows.
InitPaging ==
    InitCall([1..PagingEntries -> AsciiWords], {W_ab, W_aba}, {2, 4}, {0, 2})

\* Calls whose prefix tier finds headwords of one-byte and of two-byte
\* characters.
PrefixWords == {W_ab, W_abab, W_ae, W_aee}
InitPrefix ==
    InitCall(StoresOver(PrefixWords, MaxEntries), {<<"a">>, W_ab},
             1..MaxLimit, 0..1)

\* Calls with queries of two characters, of two and of three bytes.
ShortWords == {W_ab, W_eb, W_ae}
ShortQueries == {W_ab, W_ea, W_ae}
InitShort ==
    InitCall(StoresOver(ShortWords, MaxEntries), ShortQueries,
             0..MaxLimit, 0..1)

\* Calls without an offset, with a four-letter query against headwords at
\* distance 0, 1, 2 and 3 from it.
FuzzyWords == {W_abab, W_Abab, W_aba, W_ab, W_abeee}
InitFuzzy ==
    InitCall(StoresOver(FuzzyWords, MaxEntries), {W_abab, W_Abab},
             0..MaxLimit, {0})

\* Calls whose query holds the LIKE wildcards _ and %, or a double quote.
LikeWords == {W_ab, W_Ab, W_aba, W_a_b, W_b_aba}
LikeQueries == {W_ab, <<"a", "_">>, <<"%", "b">>, <<"a", "%">>, <<"a", "quote">>}
InitLike ==
    InitCall(StoresOver(LikeWords, MaxEntries), LikeQueries, 1..MaxLimit, 0..1)

\* Calls with limit and offset at both ends of the u32 range.
WideValues == {0, 1, 2, UMax - 1, UMax}
InitWide ==
    InitCall(StoresOver({W_ab, W_aba, W_b_aba}, MaxEntries), {W_ab, W_aba},
             WideValues, WideValues)

\* Calls with a one-letter query against headwords twelve bytes longer than
\* it.
W_a13 == <<"a", "e_acute", "e_acute", "e_acute", "e_acute", "e_acute", "e_acute">>
W_b_a == <<"b", " ", "a">>
BandWords == {W_a13, W_b_a, W_ab, W_abab}

\* Stores whose index scores for the query a agree to eight decimals: the
\* first pair differs as doubles, the second is one double from two
\* different ranks.
W_baaaab == <<"b", " ", "a", " ", "a", " ", "a", " ", "a", " ", "b">>
W_baaa == <<"b", " ", "a", " ", "a", " ", "a">>
W_us_a == <<"_", "a">>
W_us_aaabb == <<"_", "a", " ", "a", " ", "a", " ", "b", " ", "b">>
CloseStores == {<<W_baaaab, W_baaa>>, <<W_us_a, W_us_aaabb>>}

InitBands ==
    \/ InitCall(StoresOver(BandWords, MaxEntries), {<<"a">>, W_aba},
                0..MaxLimit, 0..1)
    \/ InitCall(CloseStores, {<<"a">>}, 0..MaxLimit, 0..1)

q_trim == Trim(query)
tn_now == total_needed(limit, offset)

Lookup(tier) == [tier |-> tier, have |-> Len(results), need |-> tn_now]

\* Leaving the call with an error (the ? operator) or a panic.
Leave(how) ==
    /\ outcome' = how
    /\ pc' = "ret"
    /\ UNCHANGED <<results, returned>>

\* let query = query.trim(); if query.is_empty() { return Ok(Vec::new()) }
Normalize ==
    /\ pc = "call"
    /\ IF q_trim = <<>>
       THEN /\ pc' = "ret"
            /\ outcome' = "ok"
       ELSE /\ pc' = "exact"
            /\ outcome' = outcome
    /\ UNCHANGED <<store, query, limit, offset, results, returned,
                   lookups, fault, apiResult>>
    /\ UNCHANGED restVars

\* 1. Exact matches
ExactTier ==
    /\ pc = "exact"
    /\ lookups' = Append(lookups, Lookup("exact"))
    /\ \E fail \in BOOLEAN :
          /\ fault' = fail
          /\ IF fail
             THEN Leave("err")
             ELSE /\ results' = results \o ExactStep(store, q_trim, tn_now)
                  /\ pc' = "prefix"
                  /\ UNCHANGED <<outcome, returned>>
    /\ UNCHANGED <<store, query, limit, offset, apiResult>>
    /\ UNCHANGED restVars

\* 2. Prefix matches
PrefixTier ==
    /\ pc = "prefix"
    /\ IF Len(results) < tn_now
       THEN /\ lookups' = Append(lookups, Lookup("prefix"))
            /\ \E fail \in BOOLEAN :
                  /\ fault' = fail
                  /\ IF fail
                     THEN Leave("err")
                     ELSE /\ results' = PrefixStep(store, q_trim, tn_now, results)
                          /\ pc' = "fts"
                          /\ UNCHANGED <<outcome, returned>>
       ELSE /\ pc' = "fts"
            /\ UNCHANGED <<results, outcome, returned, lookups, fault>>
    /\ UNCHANGED <<store, query, limit, offset, apiResult>>
    /\ UNCHANGED restVars

\* 3. FTS matches
FtsTier ==
    /\ pc = "fts"
    /\ IF Len(results) < tn_now
       THEN /\ lookups' = Append(lookups, Lookup("fts"))
            /\ \E fail \in BOOLEAN :
                  /\ fault' = fail
                  /\ IF fail \/ ~FtsSyntaxOk(prepare_fts_query(q_trim))
                     THEN Leave("err")
                     ELSE /\ results' = FtsStep(store, q_trim, tn_now, results)
                          /\ pc' = "fuzzy"
                          /\ UNCHANGED <<outcome, returned>>
       ELSE /\ pc' = "fuzzy"
            /\ UNCHANGED <<results, outcome, returned, lookups, fault>>
    /\ UNCHANGED <<store, query, limit, offset, apiResult>>
    /\ UNCHANGED restVars

\* The rows each candidate lookup of search_fuzzy yields before a step of
\* its statement fails: all the rows it selects when none does, and also
\* when the step that fails is the one after the last row.
FuzzyCuts(st, ql) ==
    IF FuzzyPrefixPanics(ql)
    THEN {<<NoCut, NoCut>>}
    ELSE ((0..Len(FuzzyPrefixCandidates(st, ql))) \cup {NoCut})
         \X (IF Bytes(ql) >= 2 /\ IsCharBoundary(ql, 1)
             THEN (0..Len(FuzzySuffixCandidates(st, ql))) \cup {NoCut}
             ELSE {NoCut})

\* 4. Fuzzy matches.  failAt is the candidate statement whose preparation
\* or binding fails (the ? operator), 0 when none does.
FuzzyTier ==
    /\ pc = "fuzzy"
    /\ IF FuzzyEnabled(q_trim, tn_now, results)
       THEN \E failAt \in 0..2, cuts \in FuzzyCuts(store, ToLower(q_trim)) :
              LET f == search_fuzzy(store, ToLower(q_trim), tn_now - Len(results),
                                    cuts[1], cuts[2])
                  made == IF failAt > 0 THEN failAt ELSE f.lookups
              IN  /\ failAt = 1 => cuts = <<NoCut, NoCut>>
                  /\ (failAt = 2 \/ f.lookups < 2) => cuts[2] = NoCut
                  /\ failAt <= f.lookups
                  /\ lookups' = lookups \o [k \in 1..made |-> Lookup("fuzzy")]
                  /\ fault' = (failAt > 0 \/ cuts # <<NoCut, NoCut>>)
                  /\ IF failAt > 0 THEN Leave("err")
                     ELSE IF f.status = "panic" THEN Leave("panic")
                     ELSE /\ results' = AppendNew(results, f.rows)
                          /\ pc' = "sort"
                          /\ UNCHANGED <<outcome, returned>>
       ELSE /\ pc' = "sort"
            /\ UNCHANGED <<results, outcome, returned, lookups, fault>>
    /\ UNCHANGED <<store, query, limit, offset, apiResult>>
    /\ UNCHANGED restVars

\* Sort by score, apply offset and limit, return Ok(results).
SortAndSlice ==
    /\ pc = "sort"
    /\ results' = SortByScore(results)
    /\ \E usize_max \in UsizeMaxes :
          /\ returned' = Slice(SortByScore(results), limit, offset, usize_max).rows
          /\ outcome' = Slice(SortByScore(results), limit, offset, usize_max).status
    /\ pc' = "ret"
    /\ UNCHANGED <<store, query, limit, offset, lookups, fault, apiResult>>
    /\ UNCHANGED restVars

\* Result::unwrap_or_default on the outcome of a search: an error becomes
\* an empty list, a panic stays a panic.
unwrap_or_default(r) ==
    IF r.status = "err" THEN [status |-> "ok", rows |-> <<>>] ELSE r

\* lib::search: search_words(handle, query, limit).unwrap_or_default(),
\* the call with offset 0; a panic unwinds through it.
LibSearch ==
    /\ pc = "ret"
    /\ offset = 0
    /\ outcome \in {"ok", "err"}
    /\ apiResult' = unwrap_or_default([status |-> outcome, rows |-> returned]).rows
    /\ pc' = "done"
    /\ UNCHANGED <<store, query, limit, offset, results, outcome,
                   returned, lookups, fault>>
    /\ UNCHANGED restVars

Next ==
    \/ Normalize
    \/ ExactTier
    \/ PrefixTier
    \/ FtsTier
    \/ FuzzyTier
    \/ SortAndSlice
    \/ LibSearch

Spec == Init /\ [][Next]_vars

SpecPaging == InitPaging /\ [][Next]_vars

SpecPrefix == InitPrefix /\ [][Next]_vars

SpecBands == InitBands /\ [][Next]_vars

SpecShort == InitShort /\ [][Next]_vars

SpecFuzzy == InitFuzzy /\ [][Next]_vars

SpecLike == InitLike /\ [][Next]_vars

SpecWide == InitWide /\ [][Next]_vars

\* ------------------------------------------------------- string functions
\* The strings of at most n characters over the characters cs.
StringsOver(cs, n) == UNION {[1..k -> cs] : k \in 0..n}

\* The search variables while a string function is called on its own.
NoSearch ==
    /\ store = <<>>
    /\ query = <<>>
    /\ limit = 0
    /\ offset = 0
    /\ results = <<>>
    /\ outcome = "none"
    /\ returned = <<>>
    /\ lookups = <<>>
    /\ fault = FALSE
    /\ apiResult = <<>>

\* A call of the function f on one of the argument tuples args.
InitUnit(f, args) ==
    /\ NoSearch
    /\ NoOther
    /\ pc = "entered"
    /\ unit = f
    /\ input \in args
    /\ output = <<>>

\* The function returns value.
Return(value) ==
    /\ pc' = "returned"
    /\ output' = value
    /\ UNCHANGED <<store, query, limit, offset, results, outcome,
                   returned, lookups, fault, apiResult, unit, input>>
    /\ UNCHANGED otherVars

LevChars == {"a", "b", "e_acute"}

InitLev == InitUnit("levenshtein_distance",
                    StringsOver(LevChars, MaxStr) \X StringsOver(LevChars, MaxStr))

CallLevenshtein ==
    /\ pc = "entered"
    /\ unit = "levenshtein_distance"
    /\ Return(levenshtein_distance(input[1], input[2]))

SpecLev == InitLev /\ [][CallLevenshtein]_vars

InitDam == InitUnit("damerau_levenshtein_distance",
                    StringsOver(LevChars, MaxStr) \X StringsOver(LevChars, MaxStr))

CallDamerau ==
    /\ pc = "entered"
    /\ unit = "damerau_levenshtein_distance"
    /\ Return(damerau_levenshtein_distance(input[1], input[2]))

SpecDam == InitDam /\ [][CallDamerau]_vars

\* A cut taken at max_len wherever it falls.
CutAtMaxLen(text, end) == end

RECURSIVE FindBoundary(_, _)
\* while end > 0 && !text.is_char_boundary(end) { end -= 1 }
FindBoundary(text, end) ==
    IF end > 0 /\ ~IsCharBoundary(text, end)
    THEN FindBoundary(text, end - 1)
    ELSE end

\* str::rfind(' '): the number of characters before the last space, or -1.
RFindSpace(s) ==
    LET at == {k \in 1..Len(s) : s[k] = " "}
    IN  IF at = {} THEN -1 ELSE (CHOOSE k \in at : \A j \in at : j <= k) - 1

Ellipsis == <<".", ".", ".">>

\* truncate_preview: status "panic" when &text[..end] is taken inside a
\* character.
truncate_preview(text, max_len) ==
    IF Bytes(text) <= max_len
    THEN [status |-> "ok", value |-> text]
    ELSE LET end == FindBoundary(text, max_len)
         IN  IF ~IsCharBoundary(text, end)
             THEN [status |-> "panic", value |-> <<>>]
             ELSE LET truncated == BytePrefix(text, end)
                      last_space == RFindSpace(truncated)
                  IN  [status |-> "ok",
                       value |-> (IF last_space >= 0
                                  THEN SubSeq(truncated, 1, last_space)
                                  ELSE truncated) \o Ellipsis]

PreviewChars == {"a", " ", "e_acute"}

InitPreview ==
    InitUnit("truncate_preview",
             StringsOver(PreviewChars, MaxStr + 1) \X (0..(2 * MaxStr + 2)))

CallTruncatePreview ==
    /\ pc = "entered"
    /\ unit = "truncate_preview"
    /\ Return(truncate_preview(input[1], input[2]))

SpecPreview == InitPreview /\ [][CallTruncatePreview]_vars

\* The characters of the queries given to prepare_fts_query; "quote" stands
\* for the double quote.
PrepChars == {"a", " ", "*", "^", ":", "quote"}

InitPrepare == InitUnit("prepare_fts_query", {<<s>> : s \in StringsOver(PrepChars, MaxStr)})

CallPrepareFtsQuery ==
    /\ pc = "entered"
    /\ unit = "prepare_fts_query"
    /\ Return(prepare_fts_query(input[1]))

SpecPrepare == InitPrepare /\ [][CallPrepareFtsQuery]_vars

\* ----------------------------------------------------------- C interface
\* The paths given to dict_init and the words table of the database at each.
Paths == {"p1", "p2"}
DatabaseAt(path) == IF path = "p1" THEN <<W_ab>> ELSE <<W_ab, W_aba>>
FfiQueries == {W_ab, W_ae}

\* search_with_offset(handle, query, limit, offset) is imported by ffi.rs
\* and defined in none of the source files: it is taken to be the
\* search(query, limit, offset) of the specification, which runs the tiers
\* of search_words_offset, hands a failure of the store to its caller as a
\* failure result and cuts the window [min(offset, len), min(offset + limit,
\* len)) without a machine width.
search_with_offset(st, q, lim, off) ==
    search_words_offset(st, q, lim, off, UsizeMax64)

\* What dict_search reports for the handle at path when the search gave r.
SearchEntry(path, r) ==
    [fn |-> "dict_search", path |-> path,
     ret |-> IF r.status = "panic" THEN "abort" ELSE "Success",
     rows |-> r.rows]

\* A dict_init whose failure clears the handle.
HandleAfterInitOrNone(old, path, opened) == IF opened THEN Some(path) ELSE None

\* HANDLE after dict_init: Some(handle) when init(path) is Ok, else untouched.
HandleAfterInit(old, path, opened) == IF opened THEN Some(path) ELSE old

InitFfi ==
    /\ NoSearch
    /\ pc = "idle"
    /\ unit = "none"
    /\ input = <<>>
    /\ output = <<>>
    /\ NoOther

\* A call can be made: the process lives and the call budget is not spent.
CanCall == alive /\ Len(log) < MaxCalls

\* dict_init(db_path) with a valid path string; init(path) opens or creates
\* the database and may fail.
dict_init ==
    /\ CanCall
    /\ \E path \in Paths, opened \in BOOLEAN :
          /\ HANDLE' = HandleAfterInit(HANDLE, path, opened)
          /\ log' = Append(log, [fn |-> "dict_init", path |-> path,
                                 ret |-> IF opened THEN "Success" ELSE "InitFailed",
                                 rows |-> <<>>])
    /\ UNCHANGED <<alive, searchVars, unitVars, dbVars, importVars, threadVars>>

\* dict_search(query, limit, offset, out_json) with a valid UTF-8 query; a
\* panic of the search unwinds into the extern "C" frame and ends the
\* process.
dict_search ==
    /\ CanCall
    /\ \E q \in FfiQueries, lim \in 1..2, off \in 0..1 :
          log' = Append(log,
                    IF ~HANDLE.some
                    THEN [fn |-> "dict_search", path |-> "",
                          ret |-> "NotInitialized", rows |-> <<>>]
                    ELSE SearchEntry(HANDLE.path,
                             search_with_offset(DatabaseAt(HANDLE.path), q, lim, off)))
    /\ alive' = (log'[Len(log')].ret # "abort")
    /\ UNCHANGED <<HANDLE, searchVars, unitVars, dbVars, importVars, threadVars>>

\* dict_close(): *guard = None
dict_close ==
    /\ CanCall
    /\ HANDLE' = None
    /\ log' = Append(log, [fn |-> "dict_close", path |-> "", ret |-> "Success",
                           rows |-> <<>>])
    /\ UNCHANGED <<alive, searchVars, unitVars, dbVars, importVars, threadVars>>

NextFfi == dict_init \/ dict_search \/ dict_close

SpecFfi == InitFfi /\ [][NextFfi]_vars

\* ------------------------------------------- C interface under threads
\* The calls of the C interface made by several threads at once.  A thread
\* is idle, has opened a database for dict_init ("opened"), holds the guard
\* of HANDLE ("locked"), runs a lookup on the handle it found ("using"),
\* or is about to return and drop the guard ("unlock").
Lookups == {"dict_search", "dict_get_definition"}
Holding == {"locked", "using", "unlock"}

\* A lock whose guard is dropped at once.
lock_dropped(t) == "free"

\* HANDLE.lock().unwrap(): the mutex is held by the caller until its guard
\* goes out of scope.
lock_unwrap(t) == t

\* dict_init: init(path), before the lock is asked for; a failure returns
\* InitFailed without touching HANDLE.
init_path(t) ==
    /\ alive
    /\ threads[t].at = "idle"
    /\ \E path \in Paths, opened \in BOOLEAN :
          threads' = [threads EXCEPT ![t] =
                         IF opened
                         THEN [at |-> "opened", fn |-> "dict_init",
                               uses |-> Some(path), ret |-> ""]
                         ELSE [Idle EXCEPT !.fn = "dict_init", !.ret = "InitFailed"]]
    /\ UNCHANGED <<mutex, HANDLE, alive, log>>
    /\ UNCHANGED <<searchVars, unitVars, dbVars, importVars>>

\* let guard = HANDLE.lock().unwrap(), of dict_init after init(path), and
\* of dict_search, dict_get_definition and dict_close as their first step
\* on HANDLE; the call blocks while another thread holds the guard.
lock_handle(t) ==
    /\ alive
    /\ mutex = "free"
    /\ \/ /\ threads[t].at = "opened"
          /\ threads' = [threads EXCEPT ![t].at = "locked"]
       \/ /\ threads[t].at = "idle"
          /\ \E fn \in Lookups \cup {"dict_close"} :
                threads' = [threads EXCEPT ![t] =
                               [at |-> "locked", fn |-> fn, uses |-> None, ret |-> ""]]
    /\ mutex' = lock_unwrap(t)
    /\ UNCHANGED <<HANDLE, alive, log>>
    /\ UNCHANGED <<searchVars, unitVars, dbVars, importVars>>

\* dict_init: *guard = Some(handle)
install_handle(t) ==
    /\ alive
    /\ threads[t].at = "locked"
    /\ threads[t].fn = "dict_init"
    /\ HANDLE' = threads[t].uses
    /\ threads' = [threads EXCEPT ![t].at = "unlock", ![t].ret = "Success"]
    /\ UNCHANGED <<mutex, alive, log>>
    /\ UNCHANGED <<searchVars, unitVars, dbVars, importVars>>

\* dict_close: *guard = None
clear_handle(t) ==
    /\ alive
    /\ threads[t].at = "locked"
    /\ threads[t].fn = "dict_close"
    /\ HANDLE' = None
    /\ threads' = [threads EXCEPT ![t].at = "unlock", ![t].ret = "Success"]
    /\ UNCHANGED <<mutex, alive, log>>
    /\ UNCHANGED <<searchVars, unitVars, dbVars, importVars>>

\* dict_search, dict_get_definition: match guard.as_ref() { Some(h) => h,
\* None => return NotInitialized }
take_handle(t) ==
    /\ alive
    /\ threads[t].at = "locked"
    /\ threads[t].fn \in Lookups
    /\ threads' = [threads EXCEPT ![t] =
                      IF HANDLE.some
                      THEN [@ EXCEPT !.at = "using", !.uses = HANDLE]
                      ELSE [@ EXCEPT !.at = "unlock", !.ret = "NotInitialized"]]
    /\ UNCHANGED <<mutex, HANDLE, alive, log>>
    /\ UNCHANGED <<searchVars, unitVars, dbVars, importVars>>

\* search_with_offset(handle, ...) or get_definition(handle, word_id)
\* through the reference into HANDLE; a panic of the search ends the
\* process.
run_lookup(t) ==
    /\ alive
    /\ threads[t].at = "using"
    /\ \E q \in FfiQueries :
          /\ alive' = ~(/\ threads[t].fn = "dict_search"
                        /\ HANDLE.some
                        /\ search_with_offset(DatabaseAt(HANDLE.path), q, 2, 0).status
                              = "panic")
          /\ threads' = [threads EXCEPT ![t].at = "unlock",
                                        ![t].ret = IF alive' THEN "Success"
                                                   ELSE "abort"]
    /\ UNCHANGED <<mutex, HANDLE, log>>
    /\ UNCHANGED <<searchVars, unitVars, dbVars, importVars>>

\* The return of a call that took the guard: the guard is dropped.
drop_guard(t) ==
    /\ alive
    /\ threads[t].at = "unlock"
    /\ mutex' = "free"
    /\ threads' = [threads EXCEPT ![t].at = "idle"]
    /\ UNCHANGED <<HANDLE, alive, log>>
    /\ UNCHANGED <<searchVars, unitVars, dbVars, importVars>>

NextThreads ==
    \E t \in Threads :
        \/ init_path(t)
        \/ lock_handle(t)
        \/ install_handle(t)
        \/ clear_handle(t)
        \/ take_handle(t)
        \/ run_lookup(t)
        \/ drop_guard(t)

SpecThreads == InitFfi /\ [][NextThreads]_vars

\* ------------------------------------------------------------- the database
\* The child tables of the schema; each row has an id and a word_id.
Tables == {"definitions", "pronunciations", "etymologies", "translations"}

\* The headwords written by the calls of the model.
DbWords == {W_ab, W_b_aba, W_Ab, W_us}

\* The postings FTS5 keeps for a document: one per token, with its position.
Postings(rowid, word) ==
    LET toks == FtsTokens(word, <<>>)
    IN  {<<rowid, p, toks[p]>> : p \in 1..Len(toks)}

\* Trigger words_ai: INSERT INTO words_fts(rowid, word) VALUES (new.id, new.word)
words_ai(fts, new) == fts \cup Postings(new[1], new[2])

\* Trigger words_ad: the 'delete' command with the old row's values removes
\* the postings those values tokenise to.
words_ad(fts, old) == fts \ Postings(old[1], old[2])

\* A words_au that only adds the new row's postings.
words_au_add_only(fts, old, new) == words_ai(fts, new)

\* Trigger words_au: 'delete' of the old values, then insert of the new.
words_au(fts, old, new) == words_ai(words_ad(fts, old), new)

\* A foreign key without ON DELETE CASCADE that is not enforced.
OnDeleteKeep(ch, ids) == ch

\* FOREIGN KEY (word_id) REFERENCES words(id) ON DELETE CASCADE, for the
\* deleted words rows ids.
OnDeleteCascade(ch, ids) == {c \in ch : c.word_id \notin ids}

\* The rows of words with this id (at most one: id is the primary key).
WordRows(ws, id) == {r \in ws : r[1] = id}

\* The rowid SQLite gives a row inserted without one: one past the largest.
NextRowid(ids) ==
    IF ids = {} THEN 1 ELSE (CHOOSE m \in ids : \A i \in ids : i <= m) + 1

\* The rows of a child table.
TableRows(ch, table) == {c \in ch : c.table = table}

\* get_etymology: SELECT etymology_text FROM etymologies WHERE word_id = ?
\* LIMIT 1: of the etymology rows of the word the one the query meets first,
\* the row of the lowest id.
get_etymology(ch, word_id) ==
    LET found == {c \in TableRows(ch, "etymologies") : c.word_id = word_id}
    IN  {c \in found : \A d \in found : c.id <= d.id}

\* get_full_definition(handle, word_id): None when words has no such row,
\* else the word with the definitions, pronunciations and translations that
\* carry its id and with one etymology.
get_full_definition(ws, ch, word_id) ==
    IF WordRows(ws, word_id) = {}
    THEN [some |-> FALSE, word |-> <<>>, rows |-> {}]
    ELSE [some |-> TRUE,
          word |-> (CHOOSE r \in WordRows(ws, word_id) : TRUE)[2],
          rows |-> {c \in ch : c.word_id = word_id /\ c.table # "etymologies"}
                   \cup get_etymology(ch, word_id)]

\* words_fts MATCH '"headword"': the rowids whose postings hold the tokens
\* of the headword as a phrase.
FtsFind(fts, headword) ==
    LET toks == FtsTokens(headword, <<>>)
    IN  {d \in {p[1] : p \in fts} :
            /\ toks # <<>>
            /\ \E at \in {p[2] : p \in fts} :
                  \A n \in 1..Len(toks) : <<d, at + n - 1, toks[n]>> \in fts}

InitDb ==
    /\ NoSearch
    /\ pc = "idle"
    /\ unit = "none"
    /\ input = <<>>
    /\ output = <<>>
    /\ NoOther

\* insert_word(conn, word, pos, language, etymology_num)
insert_word ==
    /\ NextRowid({r[1] : r \in words}) <= MaxId
    /\ \E word \in DbWords :
          LET new == <<NextRowid({r[1] : r \in words}), word>>
          IN  /\ words' = words \cup {new}
              /\ words_fts' = words_ai(words_fts, new)
              /\ last' = Called("insert_word", new[1], TRUE, {}, {})
    /\ UNCHANGED <<children, searchVars, unitVars, ffiVars,
                   importVars, threadVars>>

\* update_word(conn, word_id, word, pos, language): Ok(rows > 0)
update_word ==
    /\ \E word_id \in 1..MaxId, word \in DbWords :
          LET found == WordRows(words, word_id)
              new == <<word_id, word>>
          IN  /\ words' = IF found = {} THEN words ELSE (words \ found) \cup {new}
              /\ words_fts' = IF found = {} THEN words_fts
                              ELSE words_au(words_fts, CHOOSE r \in found : TRUE, new)
              /\ last' = Called("update_word", word_id, found # {}, found, {})
    /\ UNCHANGED <<children, searchVars, unitVars, ffiVars,
                   importVars, threadVars>>

\* delete_word(conn, word_id): Ok(rows > 0)
delete_word ==
    /\ \E word_id \in 1..MaxId :
          LET found == WordRows(words, word_id)
          IN  /\ words' = words \ found
              /\ children' = OnDeleteCascade(children, {r[1] : r \in found})
              /\ words_fts' = IF found = {} THEN words_fts
                              ELSE words_ad(words_fts, CHOOSE r \in found : TRUE)
              /\ last' = Called("delete_word", word_id, found # {}, found,
                                 children \ children')
    /\ UNCHANGED <<searchVars, unitVars, ffiVars,
                   importVars, threadVars>>

\* insert_definition, insert_pronunciation, insert_etymology,
\* insert_translation: with PRAGMA foreign_keys = ON the INSERT fails when
\* words has no row word_id.
insert_child ==
    /\ Cardinality(children) < MaxChildren
    /\ \E table \in Tables, word_id \in 1..MaxId :
          LET id == NextRowid({c.id : c \in TableRows(children, table)})
              found == WordRows(words, word_id)
          IN  /\ id <= MaxChildren
              /\ children' = IF found = {} THEN children
                             ELSE children \cup {[table |-> table, id |-> id,
                                                  word_id |-> word_id]}
              /\ last' = Called("insert_" \o table, id, found # {}, found, {})
    /\ UNCHANGED <<words, words_fts, searchVars, unitVars, ffiVars,
                   importVars, threadVars>>

\* update_definition, update_pronunciation, update_etymology,
\* update_translation: SET of the text columns WHERE id = ?; Ok(rows > 0)
update_child ==
    /\ \E table \in Tables, id \in 1..MaxChildren :
          last' = Called("update_" \o table, id,
                         \E c \in TableRows(children, table) : c.id = id, {}, {})
    /\ UNCHANGED <<words, words_fts, children, searchVars, unitVars, ffiVars,
                   importVars, threadVars>>

\* delete_definition, delete_pronunciation, delete_etymology,
\* delete_translation: DELETE WHERE id = ?; Ok(rows > 0)
delete_child ==
    /\ \E table \in Tables, id \in 1..MaxChildren :
          LET found == {c \in TableRows(children, table) : c.id = id}
          IN  /\ children' = children \ found
              /\ last' = Called("delete_" \o table, id, found # {}, {}, found)
    /\ UNCHANGED <<words, words_fts, searchVars, unitVars, ffiVars,
                   importVars, threadVars>>

NextDb ==
    \/ insert_word
    \/ update_word
    \/ delete_word
    \/ insert_child
    \/ update_child
    \/ delete_child

SpecDb == InitDb /\ [][NextDb]_vars

\* ---------------------------------------------------------------- the import
\* What the loop of import_from_jsonl_with_stats finds in a line: a line
\* that cannot be read, an empty line, a line that is not a RawWordEntry,
\* an entry that is imported, an entry whose import fails.
LineKinds == {"unreadable", "empty", "malformed", "entry", "entry_failed"}

\* The kinds of line on which the loop body ends with continue.
Continues(kind) == kind \in {"unreadable", "empty", "malformed"}

\* A count that leaves empty lines out of skipped.
CountLineNoSkip(s, kind) ==
    [s EXCEPT !.lines_processed = @ + 1,
              !.words_imported = IF kind = "entry" THEN @ + 1 ELSE @,
              !.errors = IF kind \in {"unreadable", "malformed", "entry_failed"}
                         THEN @ + 1 ELSE @]

\* The counters after one line of the given kind.
CountLine(s, kind) ==
    [s EXCEPT !.lines_processed = @ + 1,
              !.words_imported = IF kind = "entry" THEN @ + 1 ELSE @,
              !.errors = IF kind \in {"unreadable", "malformed", "entry_failed"}
                         THEN @ + 1 ELSE @,
              !.skipped = IF kind = "empty" THEN @ + 1 ELSE @]

\* The loop has begun: BEGIN TRANSACTION, ImportStats::default().
InitImport ==
    /\ NoSearch
    /\ pc = "idle"
    /\ unit = "none"
    /\ input = <<>>
    /\ output = <<>>
    /\ NoFfi /\ NoDb /\ NoThreads
    /\ stats = NoStats
    /\ importer = [state |-> "loop", open |-> TRUE, in_txn |-> 0, reported |-> 0]

\* One iteration of for line_result in reader.lines(); COMMIT; BEGIN
\* TRANSACTION may fail, which ends the import with the error.
ImportLine ==
    /\ importer.state = "loop"
    /\ stats.lines_processed < MaxLines
    /\ \E kind \in LineKinds, commit_fails \in BOOLEAN :
          LET s == CountLine(stats, kind)
              commits == ~Continues(kind) /\ s.lines_processed % CommitEvery = 0
              reported == IF s.lines_processed % ProgressEvery = 0
                          THEN s.lines_processed ELSE importer.reported
          IN  /\ commit_fails => commits
              /\ stats' = s
              /\ importer' =
                    IF commits /\ commit_fails
                    THEN [state |-> "err", open |-> FALSE,
                          in_txn |-> importer.in_txn + 1, reported |-> reported]
                    ELSE [state |-> "loop", open |-> TRUE,
                          in_txn |-> IF commits THEN 0 ELSE importer.in_txn + 1,
                          reported |-> reported]
    /\ UNCHANGED <<searchVars, unitVars, ffiVars, dbVars, threadVars>>

\* The reader is exhausted: the final COMMIT, the final progress update
\* and Ok(stats).
ImportEnd ==
    /\ importer.state = "loop"
    /\ \E commit_fails \in BOOLEAN :
          importer' = IF commit_fails
                      THEN [importer EXCEPT !.state = "err", !.open = FALSE]
                      ELSE [state |-> "ok", open |-> FALSE, in_txn |-> 0,
                            reported |-> stats.lines_processed]
    /\ UNCHANGED <<stats, searchVars, unitVars, ffiVars, dbVars, threadVars>>

NextImport == ImportLine \/ ImportEnd

SpecImport == InitImport /\ [][NextImport]_vars

\* ----------------------------------------------------------------- claims
Finished == pc \in {"ret", "done"}
ReturnedOk == Finished /\ outcome = "ok"
Invoked(tier) == \E k \in 1..Len(lookups) : lookups[k].tier = tier

\* The rows the prefix tier's LIKE pattern matches.
PrefixMatches(st, q) == {i \in 1..Len(st) : LikeMatch(Append(Trim(q), "%"), st[i])}

\* C1: the list one search_words_offset call returns holds no two results
\* with the same id, whatever the tiers have in common.
NoDuplicateIds ==
    ReturnedOk =>
        \A j, k \in 1..Len(returned) : j # k => returned[j].id # returned[k].id

\* C1 witness: a returned list of two or more, one of them an exact match
\* that the prefix pattern and the index match as well, after all three
\* tiers were asked.
NoDuplicateIdsWitness ==
    /\ ReturnedOk
    /\ Len(returned) >= 2
    /\ Invoked("prefix") /\ Invoked("fts")
    /\ \E k \in 1..Len(returned) :
          /\ returned[k].tier = "exact"
          /\ returned[k].id \in PrefixMatches(store, query) \cap IndexMatches(store, query)

\* C2: the returned list is sorted non-decreasing by score.
SortedByScore ==
    ReturnedOk =>
        \A k \in 2..Len(returned) :
            /\ returned[k - 1].score <= returned[k].score
            /\ ~ScoreLess(returned[k], returned[k - 1])

\* C2 witness: an index result returned ahead of a prefix result, which was
\* accumulated before it and has the higher score.
SortedByScoreWitness ==
    /\ ReturnedOk
    /\ \E j, k \in 1..Len(returned) :
          /\ j < k
          /\ returned[j].tier = "fts"
          /\ returned[k].tier = "prefix"
          /\ returned[j].score < returned[k].score

\* C5: a query that is empty after trimming returns an empty list as a
\* success, and no store lookup of any tier is made.
EmptyQueryReturnsEmpty ==
    (pc # "call" /\ \A k \in 1..Len(query) : query[k] = " ") =>
        /\ Finished
        /\ outcome = "ok"
        /\ returned = <<>>
        /\ lookups = <<>>
        /\ (pc = "done" => apiResult = <<>>)

\* C5 witness: a blank query returned against a store that has rows.
EmptyQueryWitness ==
    /\ pc = "ret"
    /\ query = <<" ">>
    /\ store # <<>>
    /\ outcome = "ok"

\* C7: the returned list is the window [min(offset, len), min(offset +
\* limit, len)) of the score-sorted accumulated list, so it has at most
\* limit elements and is empty when offset >= len; lib::search hands the
\* same list on.
ReturnedIsWindow ==
    (ReturnedOk /\ Trim(query) # <<>>) =>
        LET len == Len(results)
            lo == Min2(offset, len)
            hi == Min2(offset + limit, len)
        IN  /\ \A k \in 2..len : results[k - 1].score <= results[k].score
            /\ Len(returned) = hi - lo
            /\ \A k \in 1..(hi - lo) : returned[k] = results[lo + k]
            /\ Len(returned) <= limit
            /\ (offset >= len => returned = <<>>)
            /\ (pc = "done" => apiResult = returned)

\* C7 witness: a non-empty page that starts after the first result.
ReturnedIsWindowWitness ==
    /\ ReturnedOk
    /\ offset > 0
    /\ returned # <<>>
    /\ Len(results) > Len(returned)

\* The rows within fuzzy distance of the lowercased query, for a query
\* long enough for the fuzzy tier.
FuzzyEligible(st, q) ==
    LET ql == ToLower(Trim(q))
    IN  IF Len(ql) >= MIN_FUZZY_QUERY_LENGTH
        THEN {i \in 1..Len(st) :
                LET d == levenshtein_distance(ql, ToLower(st[i]))
                IN  d >= 1 /\ d <= MAX_FUZZY_DISTANCE}
        ELSE {}

\* The rows some tier matches for the query, limits aside.
EligibleIds(st, q) ==
    {i \in 1..Len(st) : st[i] = Trim(q)}
        \cup PrefixMatches(st, q) \cup IndexMatches(st, q) \cup FuzzyEligible(st, q)

\* C3: for a query with at least four eligible matches, the ids of the
\* pages (2, 0) and (2, 2) together are the ids of the page (4, 0).
PagesCoverFirstFour ==
    (/\ pc = "ret" /\ outcome = "ok" /\ ~fault
     /\ limit = 4 /\ offset = 0
     /\ Cardinality(EligibleIds(store, query)) >= 4) =>
        LET p1 == search_words_offset(store, query, 2, 0, UsizeMax64)
            p2 == search_words_offset(store, query, 2, 2, UsizeMax64)
        IN  (p1.status = "ok" /\ p2.status = "ok") =>
                Ids(p1.rows) \cup Ids(p2.rows) = Ids(returned)

\* C4: for every non-empty query, multi-byte characters included, the call
\* ends with a list or an error value, never with a panic.
NeverPanics == Finished => outcome \in {"ok", "err"}

\* C6: when the store holds the trimmed query verbatim and limit >= 1, the
\* first result of the call with offset 0 is that word with score 0.0 and
\* no result scores lower.
ExactMatchFirst ==
    (/\ pc = "ret" /\ ~fault /\ offset = 0 /\ limit >= 1
     /\ Trim(query) # <<>>
     /\ \E i \in 1..Len(store) : store[i] = Trim(query)) =>
        /\ outcome = "ok"
        /\ returned # <<>>
        /\ returned[1].word = Trim(query)
        /\ returned[1].score = 0
        /\ \A k \in 1..Len(returned) : returned[k].score >= 0

\* C8: when the prepared index query of a non-empty query is empty, the
\* index is not invoked and the call does not fail because of the index
\* tier.
EmptyIndexQuerySkipsIndex ==
    (/\ Trim(query) # <<>>
     /\ prepare_fts_query(Trim(query)) = <<>>
     /\ ~fault) =>
        /\ ~Invoked("fts")
        /\ (Finished => outcome = "ok")

\* C9: when a store lookup or the reading of a row fails during the call,
\* the caller receives a failure: search_words_offset does not return a
\* list, and lib::search, which can only return a list, is not what the
\* caller gets.
StoreFailureReachesCaller ==
    fault =>
        /\ (pc = "ret" => outcome # "ok")
        /\ pc # "done"

\* C10: for a query of at least three characters and a limit larger than
\* the number of eligible rows, every row whose lowercased headword starts
\* with the first two characters of the lowercased query and lies at
\* distance 1 or 2 from it is in the list returned for offset 0.
FuzzyRecall ==
    (/\ pc = "ret" /\ outcome = "ok" /\ ~fault /\ offset = 0
     /\ Len(store) <= FuzzyPrefixLimit
     /\ Len(Trim(query)) >= 3
     /\ Cardinality(EligibleIds(store, query)) < limit) =>
        \A i \in FuzzyEligible(store, query) :
            IsPrefixOf(SubSeq(ToLower(Trim(query)), 1, 2), ToLower(store[i]))
                => i \in Ids(returned)

\* The length difference of the prefix score, counted in characters.
CharLenDiff(word, q) == IF Len(word) > Len(q) THEN Len(word) - Len(q) ELSE 0

\* C11: every prefix-tier result is scored 1.0 + 0.1 * max(0, len(word) -
\* len(query)) with the lengths in characters, and among the prefix-tier
\* results of one output a headword with fewer characters never comes
\* after one with more characters.
PrefixOrderedByChars ==
    ReturnedOk =>
        /\ \A k \in 1..Len(returned) :
              returned[k].tier = "prefix" =>
                  returned[k].score = ScoreUnit + (ScoreUnit \div 10)
                                          * CharLenDiff(returned[k].word, Trim(query))
        /\ \A j, k \in 1..Len(returned) :
              (j < k /\ returned[j].tier = "prefix" /\ returned[k].tier = "prefix")
                  => Len(returned[j].word) <= Len(returned[k].word)

\* The position of a tier in the order the call consults them.
TierRank(tier) ==
    CASE tier = "exact" -> 1
      [] tier = "prefix" -> 2
      [] tier = "fts" -> 3
      [] tier = "fuzzy" -> 4

\* C13: every store lookup of the call (exact, prefix, index, fuzzy, in
\* that order) is made in a state where the accumulated result count is
\* strictly below total_needed = offset + limit.
TiersOnlyWhileNeeded ==
    \A k \in 1..Len(lookups) :
        /\ lookups[k].have < lookups[k].need
        /\ (k > 1 => TierRank(lookups[k - 1].tier) <= TierRank(lookups[k].tier))

\* The strings one insertion, deletion or substitution of a character of
\* cs away from s, no longer than n.
OneEdit(s, cs, n) ==
    {SubSeq(s, 1, k - 1) \o SubSeq(s, k + 1, Len(s)) : k \in 1..Len(s)}
    \cup {[s EXCEPT ![k] = c] : k \in 1..Len(s), c \in cs}
    \cup (IF Len(s) < n
          THEN {SubSeq(s, 1, k) \o <<c>> \o SubSeq(s, k + 1, Len(s)) :
                   k \in 0..Len(s), c \in cs}
          ELSE {})

RECURSIVE EditsToReach(_, _, _, _, _)
\* The least number of edits after which b is among the strings reached,
\* reached being the strings k edits or fewer away from the start.
EditsToReach(reached, b, cs, n, k) ==
    IF b \in reached THEN k
    ELSE EditsToReach(reached \cup UNION {OneEdit(s, cs, n) : s \in reached},
                      b, cs, n, k + 1)

\* The minimum number of single-character edits that turn a into b.
MinEdits(a, b) ==
    EditsToReach({a}, b, LevChars, IF Len(a) > Len(b) THEN Len(a) ELSE Len(b), 0)

\* C14: levenshtein_distance(a, b) is the minimum number of insertions,
\* deletions and substitutions of single characters that turn a into b;
\* it is 0 for equal strings, the character count of s against the empty
\* string, and the same in both argument orders.
LevenshteinIsMinEdits ==
    (unit = "levenshtein_distance" /\ pc = "returned") =>
        /\ output = MinEdits(input[1], input[2])
        /\ output = levenshtein_distance(input[2], input[1])
        /\ (input[1] = input[2] => output = 0)
        /\ (input[1] = <<>> => output = Len(input[2]))

\* C14 witness: a distance returned for a longer first argument (the
\* swapped case) that holds a multi-byte character.
LevenshteinWitness ==
    /\ unit = "levenshtein_distance"
    /\ pc = "returned"
    /\ input = <<<<"a", "e_acute", "b">>, <<"b", "a">>>>
    /\ output = 3

\* C15: for every text and max_len, also a max_len inside a multi-byte
\* character, truncate_preview does not panic, returns the text itself or
\* a prefix of whole characters of it followed by the ellipsis, and the
\* result is at most the text plus the ellipsis long.
TruncationIsSafe ==
    (unit = "truncate_preview" /\ pc = "returned") =>
        /\ output.status = "ok"
        /\ \/ output.value = input[1]
           \/ \E n \in 0..Len(input[1]) :
                 /\ output.value = SubSeq(input[1], 1, n) \o Ellipsis
                 /\ Bytes(SubSeq(input[1], 1, n)) <= input[2]
        /\ Bytes(output.value) <= Bytes(input[1]) + Bytes(Ellipsis)

\* C15 witness: a text cut at a max_len that falls inside its two-byte
\* character.
TruncationWitness ==
    /\ unit = "truncate_preview"
    /\ pc = "returned"
    /\ input = <<<<"a", "e_acute", "a">>, 2>>
    /\ output = [status |-> "ok", value |-> <<"a", ".", ".", ".">>]

\* C16: the fuzzy tier makes a lookup only for a lowercased query of at
\* least MIN_FUZZY_QUERY_LENGTH characters and with the accumulated count
\* below total_needed; a query of fewer than 3 characters causes no
\* fuzzy lookup and yields no fuzzy-scored result.
FuzzyOnlyForLongQueries ==
    LET chars == Len(ToLower(Trim(query)))
    IN  /\ \A k \in 1..Len(lookups) :
              lookups[k].tier = "fuzzy" =>
                  /\ chars >= MIN_FUZZY_QUERY_LENGTH
                  /\ lookups[k].have < lookups[k].need
        /\ chars < MIN_FUZZY_QUERY_LENGTH =>
              /\ ~Invoked("fuzzy")
              /\ \A k \in 1..Len(results) : results[k].tier # "fuzzy"
              /\ \A k \in 1..Len(returned) : returned[k].tier # "fuzzy"

\* b is a with exactly one pair of adjacent, distinct characters swapped.
IsAdjacentSwap(a, b) ==
    /\ Len(a) = Len(b)
    /\ \E k \in 1..(Len(a) - 1) :
          /\ a[k] # a[k + 1]
          /\ b = [a EXCEPT ![k] = a[k + 1], ![k + 1] = a[k]]

\* C17: damerau_levenshtein_distance(a, b) <= levenshtein_distance(a, b),
\* and when b is a with one adjacent pair of distinct characters swapped
\* the former is 1 and the latter 2.
DamerauAtMostLevenshtein ==
    (unit = "damerau_levenshtein_distance" /\ pc = "returned") =>
        /\ output <= levenshtein_distance(input[1], input[2])
        /\ IsAdjacentSwap(input[1], input[2]) =>
              /\ output = 1
              /\ levenshtein_distance(input[1], input[2]) = 2

\* C17 witness: a distance returned for a string and its copy with the
\* first two characters swapped.
DamerauWitness ==
    /\ unit = "damerau_levenshtein_distance"
    /\ pc = "returned"
    /\ input = <<<<"a", "e_acute", "b">>, <<"e_acute", "a", "b">>>>
    /\ output = 1

\* The call log[k] is a dict_init that returned Success.
InitSucceeded(k) == log[k].fn = "dict_init" /\ log[k].ret = "Success"

\* The successful dict_init calls before call k with no dict_close between
\* them and call k.
LiveInits(k) ==
    {j \in 1..(k - 1) :
        /\ InitSucceeded(j)
        /\ \A i \in (j + 1)..(k - 1) : log[i].fn # "dict_close"}

\* C18: dict_search returns NotInitialized exactly when no dict_init has
\* succeeded since the last dict_close (or since the start); dict_close
\* always returns Success; a failed dict_init leaves the installed handle
\* in place, so a later dict_search is served by the database of the
\* latest successful dict_init.
FfiHandleLifecycle ==
    \A k \in 1..Len(log) :
        /\ log[k].fn = "dict_search" =>
              /\ (log[k].ret = "NotInitialized") <=> (LiveInits(k) = {})
              /\ log[k].ret # "NotInitialized" =>
                    \E j \in LiveInits(k) :
                        /\ \A i \in LiveInits(k) : i <= j
                        /\ log[k].path = log[j].path
        /\ log[k].fn = "dict_close" => log[k].ret = "Success"

\* C18 witness: a dict_search answered from the database installed before
\* a dict_init that failed, after an earlier dict_close.
FfiHandleWitness ==
    /\ Len(log) = 4
    /\ log[1].fn = "dict_close"
    /\ InitSucceeded(2)
    /\ log[3].fn = "dict_init" /\ log[3].ret = "InitFailed" /\ log[3].path # log[2].path
    /\ log[4].fn = "dict_search" /\ log[4].ret = "Success" /\ log[4].rows # <<>>

\* An exact phrase occurs in a document's tokens.
HasPhrase(doc, phrase) ==
    /\ phrase # <<>>
    /\ \E at \in 1..Len(doc) :
          /\ at + Len(phrase) - 1 <= Len(doc)
          /\ \A n \in 1..Len(phrase) : phrase[n] = doc[at + n - 1]

\* The ids of the words rows whose headword holds the tokens of w as a phrase.
RowsHolding(w) ==
    {r[1] : r \in {x \in words : HasPhrase(FtsTokens(x[2], <<>>), FtsTokens(w, <<>>))}}

\* The (id, word) pairs of a table that a MATCH for the word itself finds
\* in the index.
Searchable(fts, rows) == {r \in rows : r[1] \in FtsFind(fts, r[2])}

\* C19 as worded: after any sequence of insert_word, update_word and
\* delete_word the searchable (rowid, word) pairs are the (id, word) pairs of
\* words; an updated word is found under its new headword and not under
\* the headword it had before, and a deleted word is not found at all.
IndexEqualsWords ==
    /\ {p[1] : p \in words_fts} \subseteq {r[1] : r \in words}
    /\ Searchable(words_fts, words) = words
    /\ (last.op = "update_word" /\ last.ret) =>
          \A new \in WordRows(words, last.id), old \in last.old :
             /\ last.id \in FtsFind(words_fts, new[2])
             /\ old[2] # new[2] => last.id \notin FtsFind(words_fts, old[2])
    /\ last.op = "delete_word" =>
          /\ last.id \notin {p[1] : p \in words_fts}
          /\ \A w \in DbWords : last.id \notin FtsFind(words_fts, w)

\* C19, amended: after any sequence of insert_word, update_word and
\* delete_word the index holds exactly the postings of the rows of words, so
\* a MATCH for a headword finds exactly the rows whose tokens hold the
\* headword's tokens as a phrase; an updated word whose new headword has a
\* token is found under it, and is no longer found under the old headword
\* unless the new tokens hold the old ones as a phrase; a deleted word is
\* not found at all.
IndexSynchronised ==
    /\ words_fts = UNION {Postings(r[1], r[2]) : r \in words}
    /\ \A w \in DbWords : FtsFind(words_fts, w) = RowsHolding(w)
    /\ (last.op = "update_word" /\ last.ret) =>
          \A new \in WordRows(words, last.id), old \in last.old :
             /\ FtsTokens(new[2], <<>>) # <<>> => last.id \in FtsFind(words_fts, new[2])
             /\ ~HasPhrase(FtsTokens(new[2], <<>>), FtsTokens(old[2], <<>>))
                   => last.id \notin FtsFind(words_fts, old[2])
    /\ last.op = "delete_word" =>
          /\ last.id \notin {p[1] : p \in words_fts}
          /\ \A w \in DbWords : last.id \notin FtsFind(words_fts, w)

\* An update has replaced a headword by one with other tokens while another
\* row still holds the old headword.
IndexSynchronisedWitness ==
    /\ last.op = "update_word"
    /\ last.ret
    /\ last.old = {<<1, W_ab>>}
    /\ words = {<<1, W_b_aba>>, <<2, W_ab>>}
    /\ FtsFind(words_fts, W_ab) = {2}
    /\ FtsFind(words_fts, W_b_aba) = {1}

\* C20: every child row references an existing word; delete_word returns
\* true exactly when the word existed, and after it get_full_definition of
\* that id is None and no child row carries the id.
ChildrenReferToWords ==
    /\ \A c \in children : WordRows(words, c.word_id) # {}
    /\ last.op = "delete_word" =>
          /\ last.ret = (last.old # {})
          /\ ~get_full_definition(words, children, last.id).some
          /\ \A c \in children : c.word_id # last.id

\* A delete_word has removed one of two words together with its child row.
ChildrenReferToWordsWitness ==
    /\ last.op = "delete_word"
    /\ last.ret
    /\ last.gone # {}
    /\ \A c \in last.gone : c.word_id = last.id
    /\ words # {}

\* The rows search_fuzzy fetches as candidates for the lowercased query.
FuzzyCandidates(st, ql) ==
    {FuzzyPrefixCandidates(st, ql)[k] : k \in 1..Len(FuzzyPrefixCandidates(st, ql))}
        \cup {FuzzySuffixCandidates(st, ql)[k] :
                 k \in 1..Len(FuzzySuffixCandidates(st, ql))}

\* C21: every result of the fuzzy tier lies at Levenshtein distance d from
\* the lowercased query with 0 < d <= 2 and has score 3.0 + d, that is 4.0
\* or 5.0, so its lowercased headword differs from the lowercased query;
\* and when the candidates with 0 < d <= 2 fit into what the tier was asked
\* for, every one of them is in the accumulated list.
FuzzyKeepsAndScores ==
    LET ql == ToLower(q_trim)
    IN  /\ \A k \in 1..Len(results) :
              results[k].tier = "fuzzy" =>
                 LET d == levenshtein_distance(ql, ToLower(results[k].word))
                 IN  /\ d \in 1..2
                     /\ results[k].score = 3 * ScoreUnit + ScoreUnit * d
                     /\ results[k].score \in {4 * ScoreUnit, 5 * ScoreUnit}
                     /\ ToLower(results[k].word) # ql
        /\ (/\ pc \in {"sort", "ret", "done"}
            /\ outcome # "err" /\ outcome # "panic"
            /\ ~fault
            /\ \E k \in 1..Len(lookups) :
                  /\ lookups[k].tier = "fuzzy"
                  /\ Cardinality({i \in FuzzyCandidates(store, ql) :
                         levenshtein_distance(ql, ToLower(store[i])) \in 1..2})
                        <= lookups[k].need - lookups[k].have) =>
               \A i \in FuzzyCandidates(store, ql) :
                  levenshtein_distance(ql, ToLower(store[i])) \in 1..2
                     => i \in Ids(results)

\* The fuzzy tier has returned a row at distance 1 and one at distance 2
\* while the store also holds the query in another case.
FuzzyKeepsAndScoresWitness ==
    /\ pc = "ret" /\ outcome = "ok"
    /\ \E k \in 1..Len(returned) :
          returned[k].tier = "fuzzy" /\ returned[k].score = 4 * ScoreUnit
    /\ \E k \in 1..Len(returned) :
          returned[k].tier = "fuzzy" /\ returned[k].score = 5 * ScoreUnit
    /\ \E i \in 1..Len(store) :
          store[i] # q_trim /\ ToLower(store[i]) = ToLower(q_trim)

\* s starts with p, letters compared up to ASCII case as LIKE compares them.
StartsWithFolded(p, s) ==
    /\ Len(p) <= Len(s)
    /\ \A n \in 1..Len(p) : AsciiFold(p[n]) = AsciiFold(s[n])

\* C22: every result of the prefix tier has a headword that starts with
\* the trimmed query, also for a query that holds % or _.
PrefixResultsStartWithQuery ==
    /\ \A k \in 1..Len(results) :
          results[k].tier = "prefix" => StartsWithFolded(q_trim, results[k].word)
    /\ \A k \in 1..Len(returned) :
          returned[k].tier = "prefix" => StartsWithFolded(q_trim, returned[k].word)

\* The position of the row with this id in a list of results.
PositionOf(rows, id) == CHOOSE k \in 1..Len(rows) : rows[k].id = id

\* C23: of two results with equal score, the one appended earlier to the
\* accumulated list stands first in the sorted list and in the output.
TiesKeepAppendOrder ==
    [][(pc = "sort" /\ pc' = "ret") =>
          \A i, j \in 1..Len(results) :
             (/\ i < j
              /\ ~ScoreLess(results[i], results[j])
              /\ ~ScoreLess(results[j], results[i])) =>
                /\ PositionOf(results', results[i].id) < PositionOf(results', results[j].id)
                /\ ({results[i].id, results[j].id} \subseteq Ids(returned') =>
                      PositionOf(returned', results[i].id)
                         < PositionOf(returned', results[j].id))]_vars

\* Two rows of equal score were returned ahead of a third, the one
\* retrieved first having the larger id.
TiesKeepAppendOrderWitness ==
    /\ pc = "ret" /\ outcome = "ok"
    /\ store = <<W_ab, W_Ab, W_a_b>>
    /\ query = <<"a", "_">>
    /\ [k \in 1..Len(returned) |-> <<returned[k].id, returned[k].score>>]
          = <<<<2, ScoreUnit>>, <<1, ScoreUnit>>, <<3, 11 * (ScoreUnit \div 10)>>>>

\* The query with each of *, ^ and : replaced by a space.
ReservedToSpaces(s) ==
    [i \in 1..Len(s) |-> IF s[i] \in {"*", "^", ":"} THEN " " ELSE s[i]]

RECURSIVE QuotesDoubled(_)
\* The query with every double quote written twice.
QuotesDoubled(s) ==
    IF s = <<>> THEN <<>>
    ELSE (IF Head(s) = "quote" THEN <<"quote", "quote">> ELSE <<Head(s)>>)
         \o QuotesDoubled(Tail(s))

\* The positions at which a whitespace-delimited token of s ends.
TokenEnds(s) == {i \in 1..Len(s) : s[i] # " " /\ (i = Len(s) \/ s[i + 1] = " ")}

RECURSIVE TermsFrom(_, _)
\* The tokens of s from position i on, each followed by * and all but the
\* last by one space.
TermsFrom(s, i) ==
    IF i > Len(s) THEN <<>>
    ELSE (IF s[i] = " " THEN <<>>
          ELSE <<s[i]>> \o (IF i \in TokenEnds(s)
                            THEN <<"*">> \o (IF \E j \in TokenEnds(s) : j > i
                                             THEN <<" ">> ELSE <<>>)
                            ELSE <<>>))
         \o TermsFrom(s, i + 1)

\* out is the prepared form of the tokens of src.
PreparedFrom(src, out) ==
    /\ out = TermsFrom(src, 1)
    /\ \A i \in 1..Len(out) : out[i] \notin {"^", ":"}
    /\ Cardinality({i \in 1..Len(out) : out[i] = "*"}) = Cardinality(TokenEnds(src))
    /\ \A i \in 1..Len(out) :
          out[i] = "*" => (i = Len(out) \/ out[i + 1] = " ")
    /\ (out = <<>>) <=> (TokenEnds(src) = {})

\* C24 as stated: prepare_fts_query returns the whitespace-delimited tokens
\* of the query, after *, ^ and : have been replaced by spaces, each
\* followed by a single * and joined by single spaces.
PreparedFromQuery ==
    (unit = "prepare_fts_query" /\ pc = "returned") =>
        PreparedFrom(ReservedToSpaces(input[1]), output)

\* C24 as amended: the tokens are those of the query after every double
\* quote has been doubled and *, ^ and : have been replaced by spaces.
PreparedFromEscapedQuery ==
    (unit = "prepare_fts_query" /\ pc = "returned") =>
        PreparedFrom(ReservedToSpaces(QuotesDoubled(input[1])), output)

\* A query of two tokens, one with a double quote, split at a reserved
\* character.
PreparedFromEscapedQueryWitness ==
    /\ unit = "prepare_fts_query"
    /\ pc = "returned"
    /\ input = <<<<"a", ":", "quote">>>>
    /\ output = <<"a", "*", " ", "quote", "quote", "*">>

\* C25: total_needed is min(offset + limit, u32::MAX) without wrap-around;
\* a tier that subtracts the accumulated count from total_needed does so
\* with the count strictly below it; and, on every target, the list that is
\* about to be sliced gives bounds start <= end <= len and the window
\* results[start..end] is what the call returns.
ArithmeticInRange ==
    LET len == Len(results)
        start == IF offset < len THEN offset ELSE len
        end == IF start + limit < len THEN start + limit ELSE len
    IN  /\ \A k \in 1..Len(lookups) :
              /\ lookups[k].need = (IF offset + limit < UMax THEN offset + limit ELSE UMax)
              /\ lookups[k].need >= limit /\ lookups[k].need >= offset
              /\ lookups[k].tier # "exact" =>
                    lookups[k].need - lookups[k].have \in 1..UMax
        /\ pc = "sort" =>
              \A usize_max \in UsizeMaxes :
                  /\ start + limit <= usize_max
                  /\ Slice(SortByScore(results), limit, offset, usize_max).status = "ok"
        /\ ReturnedOk /\ Trim(query) # <<>> =>
              /\ start <= end /\ end <= len
              /\ Len(returned) = end - start
              /\ \A k \in 1..Len(returned) : returned[k] = results[start + k]

\* C26: an open transaction never spans more than the commit period of
\* processed lines, whatever the lines hold.
TransactionSpanBounded ==
    importer.open => importer.in_txn <= CommitEvery

\* C29: at every loop boundary and on successful return every processed
\* line is counted as imported, as an error or as skipped, and the final
\* progress callback reports lines_processed.
LinesAccounted ==
    /\ importer.state \in {"loop", "ok"} =>
          stats.lines_processed = stats.words_imported + stats.errors + stats.skipped
    /\ importer.state = "ok" => importer.reported = stats.lines_processed

\* An import has returned after lines of every outcome, the last one past
\* the last periodic progress report.
LinesAccountedWitness ==
    /\ importer.state = "ok"
    /\ stats.words_imported > 0 /\ stats.errors > 1 /\ stats.skipped > 0
    /\ stats.lines_processed % ProgressEvery # 0
    /\ importer.reported = stats.lines_processed

\* C27: of two returned results of different tiers the one of the earlier
\* tier (exact, prefix, index, fuzzy) has the strictly lower score and
\* stands first; a prefix score stays below 2.0 and an index score below
\* 3.0.
TierBandsOrderOutput ==
    ReturnedOk =>
        /\ \A j, k \in 1..Len(returned) :
              TierRank(returned[j].tier) < TierRank(returned[k].tier) =>
                  returned[j].score < returned[k].score /\ j < k
        /\ \A k \in 1..Len(returned) :
              /\ returned[k].tier = "prefix" => returned[k].score < 2 * ScoreUnit
              /\ returned[k].tier = "fts" => returned[k].score < 3 * ScoreUnit

\* C28: at every point of a call the accumulated list has at most
\* total_needed = offset + limit elements: every tier is asked with the
\* count it starts from within total_needed, and the list that is sorted
\* and sliced is no longer than total_needed.
AccumulatedWithinNeed ==
    /\ Len(results) <= tn_now
    /\ \A k \in 1..Len(lookups) :
          /\ lookups[k].need = tn_now
          /\ lookups[k].have <= lookups[k].need
    /\ Len(returned) <= tn_now

\* The list is sorted with exactly total_needed rows, of two tiers, of a
\* store whose three rows all match the prefix pattern and the index query.
AccumulatedWithinNeedWitness ==
    /\ pc = "sort"
    /\ tn_now = 2
    /\ Len(results) = 2
    /\ results[1].tier # results[2].tier
    /\ Cardinality(PrefixMatches(store, query) \cap IndexMatches(store, query)) = 3

\* C30: under every interleaving of threads calling dict_init,
\* dict_search, dict_get_definition and dict_close at most one thread is
\* between taking and dropping the guard of HANDLE, HANDLE is the handle a
\* running lookup found for as long as the lookup runs, and a lookup that
\* has returned either ran on an installed handle or returned
\* NotInitialized.
HandleExclusive ==
    /\ \A t, u \in Threads :
          (threads[t].at \in Holding /\ threads[u].at \in Holding) => t = u
    /\ \A t \in Threads :
          /\ threads[t].at = "using" =>
                HANDLE = threads[t].uses /\ HANDLE.some
          /\ (threads[t].fn \in Lookups /\ threads[t].at \in {"unlock", "idle"}) =>
                IF threads[t].ret = "NotInitialized"
                THEN threads[t].uses = None
                ELSE /\ threads[t].uses \in {Some(p) : p \in Paths}
                     /\ (threads[t].at = "unlock" => HANDLE = threads[t].uses)

\* A lookup runs on the handle of one path while another thread has opened
\* the database of the other path and waits for the guard.
HandleExclusiveWitness ==
    \E t, u \in Threads :
        /\ threads[t].at = "using"
        /\ threads[t].fn = "dict_search"
        /\ threads[u].at = "opened"
        /\ threads[u].uses # threads[t].uses
        /\ HANDLE = threads[t].uses
====
